---- MODULE Spec2Model ----
(***************************************************************************)
(* A model of xbox-media-utils: the per-file pipeline of the recoder       *)
(* (process_file), the hardware/software transform executor                *)
(* (run_ffmpeg_with_fallback), the output validator (validate_output),     *)
(* the rename-based replacement of the original, and the batch lock and    *)
(* exit code of the "recode process" command (acquire_lock, main).         *)
(*                                                                         *)
(* The file system is a partial function from file names to contents; a    *)
(* name outside its domain does not exist.  External tools (ffmpeg,        *)
(* ffprobe, the OCR ripper) and failing system calls are inputs chosen by  *)
(* the environment at the step that makes the call.                        *)
(***************************************************************************)
EXTENDS Integers, Sequences, FiniteSets, TLC

VARIABLES
    info,          \* the MediaInfo process_file works on
    dry_run,       \* process_file's dry_run argument
    use_hardware,  \* process_file's use_hardware argument
    fs,            \* file system: name -> content, defined on existing files
    fs0,           \* the file system when process_file was entered
    pc,            \* position in process_file
    result,        \* process_file's result dict
    fb_attempts,   \* transform invocations of the run_ffmpeg_with_fallback call in progress
    fb_ret,        \* run_ffmpeg_with_fallback's return value, None before it returns
    validated,     \* validate_output accepted the candidate in this invocation
    ev,            \* what the replacement steps did, in order
    cmd,           \* argument sequence of the last command build_ffmpeg_cmd returned
    hdr_calls,     \* calls of create_hdr10_copy on this source, in order
    sup_parts,     \* components of the stem of the bitmap sidecar handed to OCR
    ocr_calls,     \* calls of ocr_sup_to_srt on that sidecar, in order
    sig,           \* the process's SIGALRM state: installed handler, pending alarm
    ocr_frame,     \* position and locals of the running ocr_sup_to_srt call
    probe_out,     \* what the prober prints for the file, when asked
    probe_calls,   \* invocations of the prober on the file, in order
    lk_path,       \* inode the lock file name is bound to, None when the name is free
    lk_holder,     \* inode -> invocation holding its flock, None when unlocked
    lk_content,    \* inode -> invocation whose PID is written in it, None when empty
    m_pc,          \* invocation -> position in main / acquire_lock
    m_fd,          \* invocation -> inode its lock file descriptor is open on, None when none
    m_statuses,    \* invocation -> result statuses of the files handled so far
    m_raised,      \* invocation -> exception travelling through acquire_lock, None when none
    m_exit,        \* invocation -> process exit code, -1 while running
    library        \* number of files of the library that need processing

vars == << info, dry_run, use_hardware, fs, fs0, pc, result, fb_attempts, fb_ret,
           validated, ev, cmd, hdr_calls, sup_parts, ocr_calls, sig, ocr_frame,
           probe_out, probe_calls, lk_path, lk_holder, lk_content, m_pc, m_fd,
           m_statuses, m_raised, m_exit, library >>

pfVars == << info, dry_run, use_hardware, fs, fs0, pc, result, fb_attempts, fb_ret,
             validated, ev, cmd, hdr_calls, sup_parts, ocr_calls, sig, ocr_frame,
             probe_out, probe_calls >>

ocrVars == << sup_parts, ocr_calls, sig, ocr_frame >>

probeVars == << probe_out, probe_calls >>

lockVars == << lk_path, lk_holder, lk_content, m_pc, m_fd, m_statuses, m_raised,
               m_exit, library >>

None == "<None>"

(***************************************************************************)
(* Bounds of the model.                                                    *)
(***************************************************************************)
MaxDiagLen == 1      \* fragments in one captured diagnostic text
MaxFiles == 1        \* files of the library that need processing, concurrent invocations
MaxBatch == 2        \* files of the library that need processing, one invocation
MaxAudioTracks == 2  \* audio tracks of a probed file
MaxCalls == 2        \* calls of create_hdr10_copy or ocr_sup_to_srt on one file
MaxSubs == 2         \* subtitle tracks of a file whose subtitles are extracted

(***************************************************************************)
(* constants.py                                                            *)
(***************************************************************************)
\* a compatible set without vp9
COMPATIBLE_VIDEO_CODECS_NoVp9 == {"h264", "hevc"}

COMPATIBLE_VIDEO_CODECS == {"h264", "hevc", "vp9"}

VAAPI_INCOMPATIBLE_CODECS == {"mpeg4", "msmpeg4v1", "msmpeg4v2", "msmpeg4v3"}

TEXT_SUBTITLE_CODECS ==
    {"subrip", "srt", "ass", "ssa", "mov_text", "webvtt", "text", "sami"}

IMAGE_SUBTITLE_CODECS ==
    {"hdmv_pgs_subtitle", "dvd_subtitle", "dvb_subtitle", "pgs", "vobsub"}

(***************************************************************************)
(* Paths: pathlib's split of a file name into stem and (last) suffix.      *)
(***************************************************************************)
Path(stem, suffix) == [stem |-> stem, suffix |-> suffix]

Name(p) == p.stem \o p.suffix

with_suffix(p, suffix) == [p EXCEPT !.suffix = suffix]

(***************************************************************************)
(* File system primitives.                                                 *)
(***************************************************************************)
Exists(f, p) == Name(p) \in DOMAIN f

StatSize(f, p) == f[Name(p)].size

WriteFile(f, p, c) ==
    [n \in DOMAIN f \cup {Name(p)} |-> IF n = Name(p) THEN c ELSE f[n]]

Unlink(f, p) == [n \in DOMAIN f \ {Name(p)} |-> f[n]]

\* os.rename of an existing source: the destination name is replaced atomically.
Rename(f, src, dst) ==
    [n \in (DOMAIN f \ {Name(src)}) \cup {Name(dst)} |->
        IF n = Name(dst) THEN f[Name(src)] ELSE f[n]]

\* "if path.exists(): path.unlink()"
UnlinkIfExists(f, p) == IF Exists(f, p) THEN Unlink(f, p) ELSE f

(***************************************************************************)
(* models.py, media.py: the probed MediaInfo and the analyzer.             *)
(***************************************************************************)
AudioTrack(index, codec, channels) ==
    [index |-> index, codec |-> codec, channels |-> channels,
     needs_recode |-> FALSE, recode_reason |-> None]

SubtitleTrack(index, codec, language, title, is_forced) ==
    [index |-> index, codec |-> codec, language |-> language, title |-> title,
     is_text |-> codec \in TEXT_SUBTITLE_CODECS,
     is_image |-> codec \in IMAGE_SUBTITLE_CODECS,
     is_forced |-> is_forced]

\* video_codec "" or None and video_bit_depth 0 stand for the falsy values
\* (None, "", 0) the code tests with "if x".
MediaInfo(path, codec, depth, audio, subs, dovi) ==
    [path |-> path, video_codec |-> codec, video_bit_depth |-> depth,
     video_hdr |-> FALSE, audio_tracks |-> audio, subtitle_tracks |-> subs,
     needs_video_recode |-> FALSE, video_recode_reason |-> None,
     dovi_profile |-> dovi, has_dovi_profile_8 |-> (dovi = 8)]

\* a MediaInfo whose probe set (or did not set) video_hdr
WithHdr(i, hdr) == [i EXCEPT !.video_hdr = hdr]

Truthy(s) == s \notin {None, ""}

\* a label that is always the channel count
ch_label_AlwaysCount(channels) == ToString(channels) \o "ch"

\* media.py lines 188-190
ch_label(channels) ==
    IF channels \in {6, 8} THEN ToString(channels - 1) \o ".1"
    ELSE ToString(channels) \o "ch"

\* an analyzer that leaves AAC tracks alone
analyze_track_KeepsAac(track) ==
    IF track.channels > 2 /\ track.codec # "aac"
    THEN [track EXCEPT !.needs_recode = TRUE] ELSE track

analyze_track(track) ==
    IF track.channels > 2
    THEN [track EXCEPT !.needs_recode = TRUE,
                       !.recode_reason =
                           track.codec \o " " \o ch_label(track.channels)
                               \o " -> AAC stereo"]
    ELSE track

analyze_recode_needs(i) ==
    LET v == IF Truthy(i.video_codec) /\ i.video_codec \notin COMPATIBLE_VIDEO_CODECS
             THEN [i EXCEPT !.needs_video_recode = TRUE,
                            !.video_recode_reason =
                                "incompatible codec: " \o i.video_codec]
             ELSE i
    IN [v EXCEPT !.audio_tracks =
            [k \in DOMAIN i.audio_tracks |-> analyze_track(i.audio_tracks[k])]]

needs_audio_recode(i) ==
    \E k \in DOMAIN i.audio_tracks : i.audio_tracks[k].needs_recode

\* a predicate that also counts extractable subtitles
needs_processing_OrSubs(i) ==
    i.needs_video_recode \/ needs_audio_recode(i)
        \/ \E k \in DOMAIN i.subtitle_tracks : i.subtitle_tracks[k].is_text

needs_processing(i) == i.needs_video_recode \/ needs_audio_recode(i)

has_extractable_subs(i) ==
    \E k \in DOMAIN i.subtitle_tracks :
        i.subtitle_tracks[k].is_text \/ i.subtitle_tracks[k].is_image

\* an eligibility predicate without the codec check
can_use_vaapi_AnyCodec(i, hw) ==
    hw /\ i.needs_video_recode /\ ~(i.video_bit_depth # 0 /\ i.video_bit_depth > 8)

\* an eligibility predicate without the bit depth check
can_use_vaapi_AnyDepth(i, hw) ==
    hw /\ i.needs_video_recode /\ i.video_codec \notin VAAPI_INCOMPATIBLE_CODECS

can_use_vaapi(i, hw) ==
    IF ~hw \/ ~i.needs_video_recode THEN FALSE
    ELSE IF i.video_bit_depth # 0 /\ i.video_bit_depth > 8 THEN FALSE
    ELSE IF i.video_codec \in VAAPI_INCOMPATIBLE_CODECS THEN FALSE
    ELSE TRUE

\* a predicate that never asks for the HDR10 copy
needs_hdr10_copy_Never(i) == FALSE

\* hdr.py: needs_hdr10_copy(info) as process_file calls it, without existing_path
needs_hdr10_copy(i) == i.has_dovi_profile_8

\* hdr.py: needs_hdr10_copy(info, existing_path) as import_file calls it;
\* exists tells whether existing_path exists
needs_hdr10_copy_existing(i, exists) == i.has_dovi_profile_8 /\ ~exists

(***************************************************************************)
(* File contents.  size is st_size, dur the container duration ffprobe     *)
(* reports (0 when the container carries none), streams the codec types    *)
(* of the streams in it.                                                   *)
(***************************************************************************)
Content(kind, size, dur, streams) ==
    [kind |-> kind, size |-> size, dur |-> dur, streams |-> streams]

InSizes == {20}

InDurs == {100}

OutSizes == {1, 2}

OutDurs == {100, 102}

OutStreams == {{"video", "audio"}, {"video"}, {"audio"}}

\* what a transform that exits 0 may leave at its output name
Candidates ==
    { Content("output", s, d, t) : s \in OutSizes, d \in OutDurs, t \in OutStreams }

\* what a transform that exits non-zero may leave at its output name
Partial == Content("output", 0, 0, {})

OriginalContent(i, size, dur) ==
    Content("original", size, dur,
            (IF Truthy(i.video_codec) THEN {"video"} ELSE {})
                \cup (IF i.audio_tracks # << >> THEN {"audio"} ELSE {}))

(***************************************************************************)
(* ffmpeg.py: validate_output.  probes says which of the three ffprobe     *)
(* calls produced parseable output; a call that did not is the             *)
(* JSONDecodeError branch.                                                 *)
(***************************************************************************)
ProbeOutcomes == [out_dur : BOOLEAN, in_dur : BOOLEAN, streams : BOOLEAN]

Abs(x) == IF x < 0 THEN -x ELSE x

\* a size check that also rejects a candidate of exactly a tenth of the source
TooSmall_OrEqual(output_size, input_size) == 10 * output_size <= input_size

\* output_size < input_size * 0.1, on file sizes (exact in doubles)
TooSmall(output_size, input_size) == 10 * output_size < input_size

\* a duration check that also rejects a deviation of exactly 1%
DurationMismatch_OrEqual(out_dur, in_dur) == 100 * Abs(out_dur - in_dur) >= in_dur

\* abs(out_dur - in_dur) / in_dur > 0.01
DurationMismatch(out_dur, in_dur) == 100 * Abs(out_dur - in_dur) > in_dur

validate_output(f, input_info, output_path, probes) ==
    IF ~Exists(f, output_path) THEN << FALSE, "Output file does not exist" >>
    ELSE
    LET out == f[Name(output_path)]
        inp == f[Name(input_info.path)]
        durs_parsed == probes.out_dur /\ probes.in_dur
    IN  IF TooSmall(out.size, inp.size) THEN << FALSE, "Output too small" >>
        ELSE IF durs_parsed /\ inp.dur > 0 /\ out.dur > 0
                /\ DurationMismatch(out.dur, inp.dur)
             THEN << FALSE, "Duration mismatch" >>
        ELSE IF probes.streams /\ "video" \notin out.streams
             THEN << FALSE, "Output missing video stream" >>
        ELSE IF probes.streams /\ "audio" \notin out.streams
                /\ input_info.audio_tracks # << >>
             THEN << FALSE, "Output missing audio stream" >>
        ELSE << TRUE, "OK" >>

(***************************************************************************)
(* ffmpeg.py: build_ffmpeg_cmd.  The command is its argument sequence.     *)
(***************************************************************************)
CRF_QUALITY == 16

VAAPI_QP == 18

HEVC_PRESET == "slow"

DOWNMIX_FILTER ==
    "pan=stereo|FL=0.5*FC+0.707*FL+0.707*BL+0.5*LFE|FR=0.5*FC+0.707*FR+0.707*BR+0.5*LFE"

\* ":".join(params)
RECURSIVE JoinColons(_)
JoinColons(params) ==
    IF Len(params) = 1 THEN params[1]
    ELSE params[1] \o ":" \o JoinColons(Tail(params))

\* audio arguments that copy every track
AudioArgs_AllCopy(track, i) == << "-c:a:" \o ToString(i), "copy" >>

\* lines 79-84: the arguments of audio track i (counted from 0)
AudioArgs(track, i) ==
    LET n == ToString(i)
    IN IF track.needs_recode
       THEN << "-c:a:" \o n, "aac", "-ac:a:" \o n, "2", "-b:a:" \o n, "256k",
               "-filter:a:" \o n, DOWNMIX_FILTER >>
       ELSE << "-c:a:" \o n, "copy" >>

RECURSIVE AllAudioArgs(_, _)
AllAudioArgs(tracks, k) ==
    IF k > Len(tracks) THEN << >>
    ELSE AudioArgs(tracks[k], k - 1) \o AllAudioArgs(tracks, k + 1)

\* video arguments that ignore use_vaapi
VideoArgs_AlwaysSoftware(i, use_vaapi) ==
    IF ~i.needs_video_recode THEN << "-c:v", "copy" >>
    ELSE << "-c:v", "libx265", "-crf", ToString(CRF_QUALITY), "-preset", HEVC_PRESET,
            "-tag:v", "hvc1" >>

\* lines 44-76
VideoArgs(i, use_vaapi) ==
    IF ~i.needs_video_recode THEN << "-c:v", "copy" >>
    ELSE IF use_vaapi
    THEN << "-c:v", "hevc_vaapi", "-qp", ToString(VAAPI_QP), "-tag:v", "hvc1" >>
    ELSE LET deep == i.video_bit_depth # 0 /\ i.video_bit_depth >= 10
             x265_params ==
                 (IF i.video_hdr THEN << "hdr-opt=1", "repeat-headers=1" >> ELSE << >>)
                     \o (IF deep THEN << "profile=main10" >> ELSE << >>)
         IN << "-c:v", "libx265", "-crf", ToString(CRF_QUALITY), "-preset", HEVC_PRESET,
               "-tag:v", "hvc1" >>
                \o (IF deep THEN << "-pix_fmt", "yuv420p10le" >> ELSE << >>)
                \o (IF x265_params # << >>
                    THEN << "-x265-params", JoinColons(x265_params) >> ELSE << >>)

\* a command that maps every stream of the input
build_ffmpeg_cmd_MapsAll(i, out, use_vaapi) ==
    << "ffmpeg", "-i", Name(i.path), "-map", "0" >>
        \o VideoArgs(i, use_vaapi) \o AllAudioArgs(i.audio_tracks, 1)
        \o << "-max_muxing_queue_size", "65536", "-y", Name(out) >>

build_ffmpeg_cmd(i, out, use_vaapi) ==
    << "ffmpeg" >>
        \o (IF i.needs_video_recode /\ use_vaapi
            THEN << "-hwaccel", "vaapi", "-hwaccel_output_format", "vaapi",
                    "-vaapi_device", "/dev/dri/renderD128" >>
            ELSE << >>)
        \o << "-i", Name(i.path) >>
        \o << "-map", "0:v:0", "-map", "0:a" >>
        \o VideoArgs(i, use_vaapi)
        \o AllAudioArgs(i.audio_tracks, 1)
        \o << "-sn" >>
        \o << "-max_muxing_queue_size", "65536" >>
        \o << "-y", Name(out) >>

(***************************************************************************)
(* Captured diagnostic text (stderr): a sequence of fragments.  The        *)
(* fragment is the unit of "substring in text"; lower() is applied         *)
(* fragment by fragment.                                                   *)
(***************************************************************************)
DiagFragments ==
    {"Failed setup for format vaapi",
     "hwaccel initialisation returned error",
     "Conversion failed!"}

RECURSIVE SeqsUpTo(_, _)
SeqsUpTo(S, n) ==
    IF n = 0 THEN { << >> }
    ELSE LET shorter == SeqsUpTo(S, n - 1)
         IN shorter \cup { Append(t, x) : t \in { u \in shorter : Len(u) = n - 1 }, x \in S }

Diags == SeqsUpTo(DiagFragments, MaxDiagLen)

Lower(fragment) ==
    CASE fragment = "Failed setup for format vaapi" -> "failed setup for format vaapi"
      [] fragment = "Conversion failed!" -> "conversion failed!"
      [] OTHER -> fragment

lower(text) == [k \in DOMAIN text |-> Lower(text[k])]

vaapi_errors ==
    {"failed setup for format vaapi",
     "hwaccel initialisation returned error",
     "impossible to convert between the formats",
     "error reinitializing filters",
     "failed to inject frame into filter network"}

\* any(err in stderr for err in vaapi_errors)
IsVaapiError(stderr) ==
    \E err \in vaapi_errors : \E k \in DOMAIN stderr : stderr[k] = err

RECURSIVE TextLen(_)
TextLen(text) == IF text = << >> THEN 0 ELSE Len(Head(text)) + TextLen(Tail(text))

ERROR_TAIL == 500

\* text[-500:], cut at fragment boundaries
RECURSIVE LastChars(_, _)
LastChars(text, n) ==
    IF TextLen(text) <= n THEN text ELSE LastChars(Tail(text), n)


(***************************************************************************)
(* constants.py: LANG_CODE_MAP, as the set of its (key, value) pairs.      *)
(***************************************************************************)
LANG_CODE_PAIRS ==
    {
     <<"eng", "en">>, <<"spa", "es">>, <<"fre", "fr">>, <<"fra", "fr">>,
     <<"deu", "de">>, <<"ger", "de">>, <<"ita", "it">>, <<"por", "pt">>,
     <<"jpn", "ja">>, <<"chi", "zh">>, <<"zho", "zh">>, <<"kor", "ko">>,
     <<"rus", "ru">>, <<"ara", "ar">>, <<"nld", "nl">>, <<"dut", "nl">>,
     <<"swe", "sv">>, <<"dan", "da">>, <<"nor", "no">>, <<"fin", "fi">>,
     <<"pol", "pl">>, <<"tur", "tr">>, <<"tha", "th">>, <<"vie", "vi">>,
     <<"hun", "hu">>, <<"ces", "cs">>, <<"cze", "cs">>, <<"ell", "el">>,
     <<"gre", "el">>, <<"heb", "he">>, <<"hin", "hi">>, <<"ind", "id">>,
     <<"msa", "ms">>, <<"may", "ms">>, <<"ron", "ro">>, <<"rum", "ro">>,
     <<"ukr", "uk">>, <<"bul", "bg">>, <<"hrv", "hr">>, <<"slk", "sk">>,
     <<"slo", "sk">>, <<"slv", "sl">>, <<"srp", "sr">>, <<"cat", "ca">>,
     <<"eus", "eu">>, <<"baq", "eu">>, <<"glg", "gl">>, <<"lit", "lt">>,
     <<"lav", "lv">>, <<"est", "et">>, <<"isl", "is">>, <<"ice", "is">>,
     <<"mlt", "mt">>, <<"cym", "cy">>, <<"wel", "cy">>, <<"gle", "ga">>,
     <<"iri", "ga">>, <<"und", "un">>
    }

LANG_CODE_MAP == [k \in { kv[1] : kv \in LANG_CODE_PAIRS } |->
                     (CHOOSE kv \in LANG_CODE_PAIRS : kv[1] = k)[2]]

(***************************************************************************)
(* subtitles.py                                                            *)
(***************************************************************************)
\* str.lower() on the language tags the model draws from
LowerTag(tag) ==
    CASE tag = "ENG" -> "eng"
      [] tag = "EN" -> "en"
      [] tag = "UND" -> "und"
      [] OTHER -> tag

\* LANG_CODE_MAP.get(lang_3.lower())
normalize_lang_code(lang_3) ==
    IF LowerTag(lang_3) \in DOMAIN LANG_CODE_MAP
    THEN LANG_CODE_MAP[LowerTag(lang_3)] ELSE None

\* ".".join(parts)
RECURSIVE JoinDots(_)
JoinDots(parts) ==
    IF Len(parts) = 1 THEN parts[1] ELSE parts[1] \o "." \o JoinDots(Tail(parts))

\* constants.py lines 100-145: TESSERACT_LANG_MAP, as the set of its pairs
TESSERACT_LANG_PAIRS ==
    {
     <<"en", "eng">>, <<"es", "spa">>, <<"fr", "fra">>, <<"de", "deu">>,
     <<"it", "ita">>, <<"pt", "por">>, <<"ja", "jpn">>, <<"zh", "chi_sim">>,
     <<"ko", "kor">>, <<"ru", "rus">>, <<"ar", "ara">>, <<"nl", "nld">>,
     <<"sv", "swe">>, <<"da", "dan">>, <<"no", "nor">>, <<"fi", "fin">>,
     <<"pl", "pol">>, <<"tr", "tur">>, <<"th", "tha">>, <<"vi", "vie">>,
     <<"hu", "hun">>, <<"cs", "ces">>, <<"el", "ell">>, <<"he", "heb">>,
     <<"hi", "hin">>, <<"id", "ind">>, <<"ms", "msa">>, <<"ro", "ron">>,
     <<"uk", "ukr">>, <<"bg", "bul">>, <<"hr", "hrv">>, <<"sk", "slk">>,
     <<"sl", "slv">>, <<"sr", "srp">>, <<"ca", "cat">>, <<"eu", "eus">>,
     <<"gl", "glg">>, <<"lt", "lit">>, <<"lv", "lav">>, <<"et", "est">>,
     <<"is", "isl">>, <<"mt", "mlt">>, <<"cy", "cym">>, <<"ga", "gle">>
    }

TESSERACT_LANG_MAP == [k \in { kv[1] : kv \in TESSERACT_LANG_PAIRS } |->
                          (CHOOSE kv \in TESSERACT_LANG_PAIRS : kv[1] = k)[2]]

\* str.isdigit() and str.isalpha() on the file name components the model
\* draws from
IsDigit(part) == part \in { ToString(n) : n \in 0..20 } \cup {"1080"}

IsAlpha(part) == ~IsDigit(part) /\ part \notin {"", "1080p", "x264", "5.1", "a1"}

\* a scan that does not skip the markers
SkippedParts_None == {}

\* subtitles.py line 52: the components the scan steps over, digits apart
SkippedParts == {"forced", "sdh", "cc", "un"}

\* subtitles.py lines 51-61: the scan of the components from the k-th leftwards
RECURSIVE DetectFrom(_, _)
DetectFrom(parts, k) ==
    IF k = 0 THEN "en"
    ELSE LET part == parts[k]
         IN IF IsDigit(part) \/ part \in SkippedParts THEN DetectFrom(parts, k - 1)
            ELSE IF Len(part) = 2 /\ IsAlpha(part)
            THEN IF LowerTag(part) \in DOMAIN TESSERACT_LANG_MAP
                 THEN LowerTag(part) ELSE DetectFrom(parts, k - 1)
            ELSE IF Len(part) = 3 /\ IsAlpha(part)
            THEN IF normalize_lang_code(part) # None
                 THEN normalize_lang_code(part) ELSE DetectFrom(parts, k - 1)
            ELSE DetectFrom(parts, k - 1)

\* parts: sup_path.stem.split(".")
detect_sub_language(parts) == DetectFrom(parts, Len(parts))

SRT_MIN_SIZE == 100

\* What the OCR library does in one ocr_sup_to_srt call.  stage: it finds no
\* subtitle data, rips no entry, saves the text file, runs out of time, or
\* raises; saved: the text file was written before the call left the timed
\* region; size: the size of the text file written.
OcrEnvs ==
    [stage : {"no_items", "no_entries"}, saved : {FALSE}, size : {0}]
        \cup [stage : {"saved"}, saved : {TRUE}, size : {0, 99, 100}]
        \cup [stage : {"timeout", "error"}, saved : {FALSE}, size : {0}]
        \cup [stage : {"timeout", "error"}, saved : {TRUE}, size : {100}]

SrtContent(size) == Content("srt", size, 0, {"subtitle"})

\* no file is being probed
NoProbe == probe_out = << >> /\ probe_calls = << >>

\* what ocr_sup_to_srt has in hand when it leaves the timed region: the
\* tuple of a return statement, or an exception on its way to a handler
Pending(kind, success, message, srt_path) ==
    [kind |-> kind, success |-> success, message |-> message, srt_path |-> srt_path]

NoPending == Pending("none", FALSE, None, None)

\* signal handlers: the one installed before the call (the default action,
\* as nothing else in the program installs one) and OcrAlarmHandler's
PreviousHandler == "previous"

AlarmHandler == "_alarm_handler"

\* no alarm is pending, the previous handler is installed, no call is running
IdleSignals ==
    /\ sig = [handler |-> PreviousHandler, alarm |-> FALSE]
    /\ ocr_frame = [pos |-> "idle", old_handler |-> None, pending |-> NoPending,
                    wrote |-> FALSE, before |-> Content("none", 0, 0, {})]

\* a cleanup that leaves the text file where it is
OcrCleanup_Keeps(f, final_srt) == f

\* subtitles.py lines 108, 114-115, 118-119: the text file is deleted
OcrCleanup(f, final_srt) == UnlinkIfExists(f, final_srt)

\* subtitles.py lines 64-120; parts are the components of sup_path's stem
ocr_sup_to_srt(f, parts, env) ==
    LET sup_path == Path(JoinDots(parts), ".sup")
        final_srt == with_suffix(sup_path, ".srt")
        lang_2 == detect_sub_language(parts)
        written == IF env.saved THEN WriteFile(f, final_srt, SrtContent(env.size)) ELSE f
        Ret(g, ok, msg, path) ==
            [fs |-> g, success |-> ok, message |-> msg, srt_path |-> path,
             lang_2 |-> lang_2]
    IN  IF ~Exists(f, sup_path)
        THEN [Ret(f, FALSE, "SUP file not found", None) EXCEPT !.lang_2 = None]
        ELSE IF env.stage = "no_items"
             THEN Ret(f, FALSE, "No PGS subtitle data found in SUP file", None)
        ELSE IF env.stage = "no_entries"
             THEN Ret(f, FALSE, "OCR produced no subtitle entries", None)
        ELSE IF env.stage = "timeout"
             THEN Ret(OcrCleanup(written, final_srt), FALSE, "OCR timed out", None)
        ELSE IF env.stage = "error"
             THEN Ret(OcrCleanup(written, final_srt), FALSE, "OCR error", None)
        ELSE IF env.size < SRT_MIN_SIZE
             THEN Ret(OcrCleanup(written, final_srt), FALSE,
                      "SRT file too small (OCR likely failed)", None)
        ELSE Ret(written, TRUE, "OCR successful", Name(final_srt))

\* the OCR outcomes process_file and import_file are run with
OcrOk == [stage |-> "saved", saved |-> TRUE, size |-> 100]

OcrNoEntries == [stage |-> "no_entries", saved |-> FALSE, size |-> 0]

OcrTimeout == [stage |-> "timeout", saved |-> TRUE, size |-> 100]

\* the environment of one track's extraction: ffmpeg's exit code, and what
\* the OCR of an extracted bitmap sidecar does (no OCR runs when ffmpeg fails)
SubEnvs == [rc : {0}, ocr : {OcrOk, OcrNoEntries, OcrTimeout}]
               \cup [rc : {1}, ocr : {OcrNoEntries}]

SubtitleContent == Content("subtitle", 1, 0, {"subtitle"})

\* any(x in sub.title.lower() for x in ["sdh", "cc", "hearing"]), on the titles
\* the model draws from
TitleMarksSdh(title) == title \in {"English SDH", "English (CC)", "Hearing impaired"}

SidecarExt(sub) ==
    IF sub.is_image THEN ".sup"
    ELSE IF sub.codec \in {"ass", "ssa"} THEN ".ass"
    ELSE ".srt"

\* a counter that is appended from the third track on
CounterShown_FromThird(count) == count > 2

\* subtitles.py line 152
CounterShown(count) == count > 1

\* subtitles.py lines 151-157: parts
SidecarParts(output_base, sub, lang, count) ==
    << output_base.stem, lang >>
        \o (IF CounterShown(count) THEN << ToString(count) >> ELSE << >>)
        \o (IF sub.is_forced THEN << "forced" >> ELSE << >>)
        \o (IF Truthy(sub.title) /\ TitleMarksSdh(sub.title)
            THEN << "sdh" >> ELSE << >>)

SidecarPath(output_base, sub, lang, count) ==
    Path(JoinDots(SidecarParts(output_base, sub, lang, count)), SidecarExt(sub))

\* a filter that extracts the tracks of every language
ExtractedLangs_Any(lang) == TRUE

\* subtitles.py line 141: only English or unknown-language tracks
ExtractedLangs(lang) == lang \in {"en", "un"}

\* a loop that keeps the bitmap sidecar after a successful OCR
SupAfterOcr_Kept(f, sup_path) == f

\* subtitles.py line 213: output_path.unlink()
SupAfterOcr(f, sup_path) == Unlink(f, sup_path)

\* The loop of extract_subtitles from track k on.  acc holds the file system,
\* the results so far and lang_counts; envs the environment of each track.
RECURSIVE ExtractFrom(_, _, _, _, _)
ExtractFrom(i, output_base, envs, k, acc) ==
    IF k > Len(i.subtitle_tracks) THEN acc
    ELSE
    LET sub == i.subtitle_tracks[k]
        lang_3 == IF Truthy(sub.language) THEN sub.language ELSE "und"
        norm == normalize_lang_code(lang_3)
        lang0 == IF Truthy(norm) THEN norm ELSE "en"
        lang == IF lang0 = "un" THEN "en" ELSE lang0
    IN  IF ~(sub.is_text \/ sub.is_image) \/ ~ExtractedLangs(lang0)
        THEN ExtractFrom(i, output_base, envs, k + 1, acc)
        ELSE
        LET count == (IF lang \in DOMAIN acc.lang_counts
                      THEN acc.lang_counts[lang] ELSE 0) + 1
            counts == [l \in DOMAIN acc.lang_counts \cup {lang} |->
                          IF l = lang THEN count ELSE acc.lang_counts[l]]
            output_path == SidecarPath(output_base, sub, lang, count)
            env == envs[k]
            extracted == IF env.rc = 0
                         THEN WriteFile(acc.fs, output_path, SubtitleContent)
                         ELSE acc.fs
            ocr == env.rc = 0 /\ sub.is_image
            r == ocr_sup_to_srt(extracted, SidecarParts(output_base, sub, lang, count),
                                env.ocr)
            ocr_ok == ocr /\ r.success /\ Truthy(r.srt_path)
            after == IF ~ocr THEN extracted
                     ELSE IF ocr_ok THEN SupAfterOcr(r.fs, output_path)
                     ELSE r.fs
            res == [track_index |-> sub.index,
                    language |-> lang,
                    codec |-> sub.codec,
                    type |-> IF sub.is_image THEN "image" ELSE "text",
                    output |-> IF ocr_ok THEN r.srt_path ELSE Name(output_path),
                    success |-> env.rc = 0,
                    ocr_performed |-> ocr,
                    ocr_success |-> ocr /\ r.success,
                    ocr_message |-> IF ocr THEN r.message ELSE None,
                    sup_deleted |-> ocr_ok]
        IN ExtractFrom(i, output_base, envs, k + 1,
                       [fs |-> after, results |-> Append(acc.results, res),
                        lang_counts |-> counts])

extract_subtitles(f, i, output_base, envs) ==
    ExtractFrom(i, output_base, envs, 1,
                [fs |-> f, results |-> << >>, lang_counts |-> << >>])

(***************************************************************************)
(* hdr.py: create_hdr10_copy.  A directory is the prefix of the names in   *)
(* it.  env: ffmpeg's exit code, what it left at the temporary name        *)
(* (NoFile: nothing), whether the rename succeeds.                         *)
(***************************************************************************)
\* info.path.parent: the names of the source's directory carry no prefix
SourceDir == ""

\* import_file's dest_dir
DestDir == "dest/"

NoFile == Content("none", 0, 0, {})

\* a size check that lets every output through
Hdr10TooSmall_Never(output_size, input_size) == FALSE

\* output_size < input_size * 0.9, on file sizes (exact in doubles)
Hdr10TooSmall(output_size, input_size) == 10 * output_size < 9 * input_size

Hdr10Envs ==
    [rc : {0, 1},
     written : {NoFile} \cup { Content("hdr10", s, 100, {"video", "audio"}) : s \in {17, 18} },
     rename_ok : BOOLEAN]

\* a create_hdr10_copy that never finds the target
Hdr10Exists_Never(f, p) == FALSE

\* hdr.py line 38: output_path.exists()
Hdr10Exists(f, p) == Exists(f, p)

\* stripped: the strip transform was invoked
create_hdr10_copy(f, i, dest_dir, env) ==
    LET output_path == Path(dest_dir \o i.path.stem \o ".HDR10", ".mkv")
        temp_path == with_suffix(output_path, ".tmp.mkv")
        ran == IF env.written = NoFile THEN f ELSE WriteFile(f, temp_path, env.written)
        Ret(g, ok, msg, path, stripped) ==
            [fs |-> g, success |-> ok, message |-> msg, path |-> path,
             stripped |-> stripped]
    IN  IF ~i.has_dovi_profile_8 THEN Ret(f, FALSE, "Not DoVi Profile 8", None, FALSE)
        ELSE IF Hdr10Exists(f, output_path)
             THEN Ret(f, TRUE, "HDR10 copy already exists", Name(output_path), FALSE)
        ELSE IF env.rc # 0
             THEN Ret(UnlinkIfExists(ran, temp_path), FALSE, "ffmpeg failed", None, TRUE)
        ELSE IF ~Exists(ran, temp_path)
             THEN Ret(ran, FALSE, "Output file not created", None, TRUE)
        ELSE IF Hdr10TooSmall(StatSize(ran, temp_path), StatSize(ran, i.path))
             THEN Ret(Unlink(ran, temp_path), FALSE, "Output too small", None, TRUE)
        ELSE IF ~env.rename_ok
             THEN Ret(UnlinkIfExists(ran, temp_path), FALSE, "Rename failed", None, TRUE)
        ELSE Ret(Rename(ran, temp_path, output_path), TRUE, "HDR10 copy created",
                 Name(output_path), TRUE)

\* what hdr_calls keeps of a call: its report and whether it ran the strip
Hdr10Call(r) == [success |-> r.success, message |-> r.message, stripped |-> r.stripped]


(***************************************************************************)
(* recode.py: process_file, one action per external call or system call.   *)
(* The calls that may fail are the ones the program handles: a transform   *)
(* exits non-zero, a probe gives no parseable output, a rename, the        *)
(* ownership change or the deletion of the backup raises.  The process may *)
(* be killed between any two steps.                                        *)
(***************************************************************************)
final_path == with_suffix(info.path, ".mkv")

output_path == with_suffix(info.path, ".xbox.mkv")

backup_path == with_suffix(info.path, info.path.suffix \o ".bak")

\* MediaInfo.audio_recode_reason: "; ".join of the tracks' reasons
RECURSIVE JoinReasons(_)
JoinReasons(tracks) ==
    IF tracks = << >> THEN None
    ELSE LET rest == JoinReasons(Tail(tracks))
             r == Head(tracks).recode_reason
         IN IF ~Truthy(r) THEN rest
            ELSE IF ~Truthy(rest) THEN r
            ELSE r \o "; " \o rest

CountSubs(i, image) ==
    Cardinality({ k \in DOMAIN i.subtitle_tracks :
                    IF image THEN i.subtitle_tracks[k].is_image
                    ELSE i.subtitle_tracks[k].is_text })

subtitle_action(i) ==
    LET t == CountSubs(i, FALSE)
        g == CountSubs(i, TRUE)
        texts == IF t > 0 THEN ToString(t) \o " text" ELSE ""
        images == IF g > 0 THEN ToString(g) \o " image" ELSE ""
        sep == IF t > 0 /\ g > 0 THEN ", " ELSE ""
    IN "extract " \o texts \o sep \o images \o " subtitle(s), remux to strip"

\* result["hdr10_copy"] = None; result["error"] = None is the empty text
NoHdr10Copy == [success |-> FALSE, message |-> None, path |-> None]

InitialResult(i) ==
    [path |-> Name(i.path), status |-> "skipped", video_action |-> "copy",
     audio_action |-> "copy", subtitle_action |-> "none", dovi_action |-> "none",
     subtitles_extracted |-> << >>, hdr10_copy |-> NoHdr10Copy, error |-> << >>,
     output_path |-> None]

PlannedResult(i) ==
    [InitialResult(i) EXCEPT
        !.video_action = IF i.needs_video_recode
                         THEN "recode: " \o i.video_recode_reason ELSE @,
        !.audio_action = IF needs_audio_recode(i)
                         THEN "recode: " \o JoinReasons(i.audio_tracks) ELSE @,
        !.subtitle_action = IF has_extractable_subs(i) THEN subtitle_action(i) ELSE @,
        !.dovi_action = IF needs_hdr10_copy(i)
                        THEN "create HDR10 copy (DoVi Profile "
                                 \o ToString(i.dovi_profile) \o ")"
                        ELSE @]

Failed(r, error) == [r EXCEPT !.status = "failed", !.error = error]

\* lines 96-125: the early returns and the plan
PfStart ==
    /\ pc = "start"
    /\ IF ~needs_processing(info) /\ ~has_extractable_subs(info) /\ ~needs_hdr10_copy(info)
       THEN /\ result' = [result EXCEPT !.status = "compatible"]
            /\ pc' = "done"
       ELSE IF dry_run
       THEN /\ result' = [PlannedResult(info) EXCEPT !.status = "would_process"]
            /\ pc' = "done"
       ELSE /\ result' = PlannedResult(info)
            /\ pc' = IF has_extractable_subs(info) THEN "extract"
                     ELSE IF needs_hdr10_copy(info) THEN "hdr10" ELSE "main"
    /\ UNCHANGED << info, dry_run, use_hardware, fs, fs0, fb_attempts, fb_ret,
                    validated, ev >>
    /\ UNCHANGED << cmd, hdr_calls, lockVars, ocrVars, probeVars >>

\* lines 128-132
PfExtractSubtitles ==
    /\ pc = "extract"
    /\ \E envs \in [DOMAIN info.subtitle_tracks -> SubEnvs] :
          LET r == extract_subtitles(fs, info, final_path, envs)
          IN /\ fs' = r.fs
             /\ result' = [result EXCEPT !.subtitles_extracted = r.results]
    /\ pc' = IF needs_hdr10_copy(info) THEN "hdr10" ELSE "main"
    /\ UNCHANGED << info, dry_run, use_hardware, fs0, fb_attempts, fb_ret,
                    validated, ev >>
    /\ UNCHANGED << cmd, hdr_calls, lockVars, ocrVars, probeVars >>

\* a process_file that gives up when the HDR10 copy failed
AfterHdr10_StopsOnFailure(success) == IF success THEN "main" ELSE "done"

\* lines 145-146: a failed HDR10 copy is logged and process_file goes on
AfterHdr10(success) == "main"

\* lines 135-146
PfHdr10Copy ==
    /\ pc = "hdr10"
    /\ \E env \in Hdr10Envs :
          LET r == create_hdr10_copy(fs, info, SourceDir, env)
          IN /\ fs' = r.fs
             /\ result' = [result EXCEPT !.hdr10_copy =
                              [success |-> r.success, message |-> r.message,
                               path |-> r.path]]
             /\ hdr_calls' = Append(hdr_calls, Hdr10Call(r))
             /\ pc' = AfterHdr10(r.success)
    /\ UNCHANGED << info, dry_run, use_hardware, fs0, fb_attempts, fb_ret,
                    validated, ev >>
    /\ UNCHANGED << cmd, lockVars, ocrVars, probeVars >>

\* what one run of an ffmpeg command writing output_path does to the file system
TransformEnvs ==
    { e \in [rc : {0, 1}, stderr : Diags, written : Candidates \cup {Partial, NoFile}] :
        /\ e.rc = 0 => e.stderr = << >> /\ e.written \in Candidates \cup {NoFile}
        /\ e.rc # 0 => e.written \in {Partial, NoFile} }

RunTransformAt(f, out, env) ==
    IF env.written = NoFile THEN f ELSE WriteFile(f, out, env.written)

RunTransform(f, env) == RunTransformAt(f, output_path, env)

\* "error[-500:] if error else <default>"
ErrorTail(text, default) ==
    IF text = << >> THEN << default >> ELSE LastChars(text, ERROR_TAIL)

\* lines 149-180: the remux-only path
PfRemux ==
    /\ pc = "main"
    /\ ~needs_processing(info) /\ has_extractable_subs(info)
    /\ \E env \in TransformEnvs :
          /\ fs' = RunTransform(fs, env)
          /\ IF env.rc # 0
             THEN /\ result' = Failed(result, ErrorTail(env.stderr, "Remux failed"))
                  /\ pc' = "discard"
             ELSE /\ result' = result
                  /\ pc' = "validate"
    /\ UNCHANGED << info, dry_run, use_hardware, fs0, fb_attempts, fb_ret,
                    validated, ev >>
    /\ UNCHANGED << cmd, hdr_calls, lockVars, ocrVars, probeVars >>

\* lines 181-185: only the HDR10 copy was needed
PfHdr10Only ==
    /\ pc = "main"
    /\ ~needs_processing(info) /\ ~has_extractable_subs(info)
    /\ result' = [result EXCEPT !.status = "success", !.output_path = Name(info.path)]
    /\ pc' = "done"
    /\ UNCHANGED << info, dry_run, use_hardware, fs, fs0, fb_attempts, fb_ret,
                    validated, ev >>
    /\ UNCHANGED << cmd, hdr_calls, lockVars, ocrVars, probeVars >>


(***************************************************************************)
(* ffmpeg.py: run_ffmpeg_with_fallback, as called at recode.py line 189.   *)
(* fb_attempts records each transform invocation: its mode, exit code and  *)
(* diagnostic text.                                                        *)
(***************************************************************************)
Attempt(mode, env) == [mode |-> mode, rc |-> env.rc, stderr |-> env.stderr]

FbReturn(success, error) == [success |-> success, error |-> error]

NotReturned == [success |-> FALSE, error |-> << None >>]

\* lines 158-160: the first attempt uses VAAPI only if eligible
FbStart ==
    /\ pc = "main"
    /\ needs_processing(info)
    /\ pc' = IF can_use_vaapi(info, use_hardware) THEN "fb_hw" ELSE "fb_sw"
    /\ UNCHANGED << info, dry_run, use_hardware, fs, fs0, result, fb_attempts,
                    fb_ret, validated, ev >>
    /\ UNCHANGED << cmd, hdr_calls, lockVars, ocrVars, probeVars >>

\* an executor that never retries in software
HardwareFailed_GivesUp(stderr) == "fb_return"

\* an executor that retries in software after any hardware failure
HardwareFailed_Retries(stderr) == "fb_unlink"

\* after a failed hardware attempt: retry in software or return its error
HardwareFailed(stderr) ==
    IF IsVaapiError(lower(stderr)) THEN "fb_unlink" ELSE "fb_return"

\* lines 161-184: the hardware attempt and the classification of its failure
FbHardware ==
    /\ pc = "fb_hw"
    /\ \E env \in TransformEnvs :
          /\ fs' = RunTransform(fs, env)
          /\ fb_attempts' = Append(fb_attempts, Attempt("hardware", env))
          /\ IF env.rc = 0
             THEN /\ fb_ret' = FbReturn(TRUE, << >>)
                  /\ pc' = "fb_return"
             ELSE /\ pc' = HardwareFailed(env.stderr)
                  /\ fb_ret' = IF pc' = "fb_return" THEN FbReturn(FALSE, env.stderr)
                               ELSE fb_ret
    /\ UNCHANGED << info, dry_run, use_hardware, fs0, result, validated, ev >>
    /\ cmd' = build_ffmpeg_cmd(info, output_path, TRUE)
    /\ UNCHANGED << hdr_calls, lockVars, ocrVars, probeVars >>

\* lines 180-181: the partial hardware output is deleted before the retry
FbDeletePartial ==
    /\ pc = "fb_unlink"
    /\ fs' = UnlinkIfExists(fs, output_path)
    /\ pc' = "fb_sw"
    /\ UNCHANGED << info, dry_run, use_hardware, fs0, result, fb_attempts, fb_ret,
                    validated, ev >>
    /\ UNCHANGED << cmd, hdr_calls, lockVars, ocrVars, probeVars >>

\* an executor that reports a failure whatever the software attempt's exit code
SoftwareReturn_Failed(env) == FbReturn(FALSE, env.stderr)

\* lines 191-194: the software attempt's outcome is the return value
SoftwareReturn(env) ==
    IF env.rc = 0 THEN FbReturn(TRUE, << >>) ELSE FbReturn(FALSE, env.stderr)

\* lines 187-194: the software attempt
FbSoftware ==
    /\ pc = "fb_sw"
    /\ \E env \in TransformEnvs :
          /\ fs' = RunTransform(fs, env)
          /\ fb_attempts' = Append(fb_attempts, Attempt("software", env))
          /\ fb_ret' = SoftwareReturn(env)
    /\ pc' = "fb_return"
    /\ UNCHANGED << info, dry_run, use_hardware, fs0, result, validated, ev >>
    /\ cmd' = build_ffmpeg_cmd(info, output_path, FALSE)
    /\ UNCHANGED << hdr_calls, lockVars, ocrVars, probeVars >>

\* recode.py lines 189-196: the executor's frame (its proc results) is gone and
\* process_file takes its return value
PfTranscodeResult ==
    /\ pc = "fb_return"
    /\ IF ~fb_ret.success
       THEN /\ result' = Failed(result, ErrorTail(fb_ret.error, "Unknown error"))
            /\ pc' = "discard"
       ELSE /\ result' = result
            /\ pc' = "validate"
    /\ fb_attempts' = << >>
    /\ UNCHANGED << info, dry_run, use_hardware, fs, fs0, fb_ret, validated, ev >>
    /\ cmd' = << >>
    /\ UNCHANGED << hdr_calls, lockVars, ocrVars, probeVars >>

(***************************************************************************)
(* recode.py lines 198-237: validation and the replacement of the original.*)
(* A system call that fails leaves the file system as it was.              *)
(***************************************************************************)
\* a process_file that replaces the original whatever the verdict
AfterValidation_Always(valid) == "backup"

\* where process_file goes with validate_output's verdict
AfterValidation(valid) == IF valid THEN "backup" ELSE "discard"

\* lines 199-205
PfValidate ==
    /\ pc = "validate"
    /\ \E probes \in ProbeOutcomes :
          LET v == validate_output(fs, info, output_path, probes)
          IN /\ validated' = v[1]
             /\ pc' = AfterValidation(v[1])
             /\ result' = IF v[1] THEN result
                          ELSE Failed(result, << "Validation failed: " \o v[2] >>)
    /\ UNCHANGED << info, dry_run, use_hardware, fs, fs0, fb_attempts, fb_ret, ev >>
    /\ UNCHANGED << cmd, hdr_calls, lockVars, ocrVars, probeVars >>

\* "if output_path.exists(): output_path.unlink(); return result" of the failure
\* paths (lines 178-180, 194-196, 203-205, 231-233)
PfDiscard ==
    /\ pc = "discard"
    /\ fs' = UnlinkIfExists(fs, output_path)
    /\ pc' = "done"
    /\ UNCHANGED << info, dry_run, use_hardware, fs0, result, fb_attempts, fb_ret,
                    validated, ev >>
    /\ UNCHANGED << cmd, hdr_calls, lockVars, ocrVars, probeVars >>

\* a replacement that deletes the original instead of keeping it as a backup
MoveToBackup_Unlinks(f) == Unlink(f, info.path)

\* the first step of the replacement: the original moves to the backup name
MoveToBackup(f) == Rename(f, info.path, backup_path)

\* lines 209-210, and 228-230 when the rename raises
PfRenameBackup ==
    /\ pc = "backup"
    /\ \/ /\ fs' = MoveToBackup(fs)
          /\ ev' = Append(ev, "backup_ok")
          /\ pc' = "commit"
          /\ result' = result
       \/ /\ fs' = fs
          /\ ev' = Append(ev, "backup_failed")
          /\ pc' = "discard"
          /\ result' = Failed(result, << "File operation failed" >>)
    /\ UNCHANGED << info, dry_run, use_hardware, fs0, fb_attempts, fb_ret, validated >>
    /\ UNCHANGED << cmd, hdr_calls, lockVars, ocrVars, probeVars >>

\* lines 212-214
PfRenameCommit ==
    /\ pc = "commit"
    /\ \/ /\ fs' = Rename(fs, output_path, final_path)
          /\ ev' = Append(ev, "commit_ok")
          /\ pc' = "chown"
       \/ /\ fs' = fs
          /\ ev' = Append(ev, "commit_failed")
          /\ pc' = "rollback"
    /\ UNCHANGED << info, dry_run, use_hardware, fs0, result, fb_attempts, fb_ret,
                    validated >>
    /\ UNCHANGED << cmd, hdr_calls, lockVars, ocrVars, probeVars >>

\* a rollback that leaves the backup where it is
RestoreBackup_Skipped(f) == f

\* the rollback of a failed commit: the backup moves back to the original name
RestoreBackup(f) == Rename(f, backup_path, info.path)

\* lines 215-217, and 228-230 when the rollback rename raises
PfRollback ==
    /\ pc = "rollback"
    /\ \/ /\ fs' = RestoreBackup(fs)
          /\ ev' = Append(ev, "rollback_ok")
          /\ result' = Failed(result, << "Rename failed" >>)
          /\ pc' = "discard_inner"
       \/ /\ fs' = fs
          /\ ev' = Append(ev, "rollback_failed")
          /\ result' = Failed(result, << "File operation failed" >>)
          /\ pc' = "discard"
    /\ UNCHANGED << info, dry_run, use_hardware, fs0, fb_attempts, fb_ret, validated >>
    /\ UNCHANGED << cmd, hdr_calls, lockVars, ocrVars, probeVars >>

\* lines 218-220
PfDiscardInner ==
    /\ pc = "discard_inner"
    /\ fs' = UnlinkIfExists(fs, output_path)
    /\ pc' = "done"
    /\ UNCHANGED << info, dry_run, use_hardware, fs0, result, fb_attempts, fb_ret,
                    validated, ev >>
    /\ UNCHANGED << cmd, hdr_calls, lockVars, ocrVars, probeVars >>

\* line 223: set_ownership never raises; its outcome is dropped
PfSetOwnership ==
    /\ pc = "chown"
    /\ \E ok \in BOOLEAN : ev' = Append(ev, IF ok THEN "chown_ok" ELSE "chown_failed")
    /\ pc' = "unlink_backup"
    /\ UNCHANGED << info, dry_run, use_hardware, fs, fs0, result, fb_attempts,
                    fb_ret, validated >>
    /\ UNCHANGED << cmd, hdr_calls, lockVars, ocrVars, probeVars >>

\* lines 226, 235-237, and 228-233 when the unlink raises
PfDeleteBackup ==
    /\ pc = "unlink_backup"
    /\ \/ /\ fs' = Unlink(fs, backup_path)
          /\ ev' = Append(ev, "unlink_ok")
          /\ result' = [result EXCEPT !.status = "success",
                                      !.output_path = Name(final_path)]
          /\ pc' = "done"
       \/ /\ fs' = fs
          /\ ev' = Append(ev, "unlink_failed")
          /\ result' = Failed(result, << "File operation failed" >>)
          /\ pc' = "discard"
    /\ UNCHANGED << info, dry_run, use_hardware, fs0, fb_attempts, fb_ret, validated >>
    /\ UNCHANGED << cmd, hdr_calls, lockVars, ocrVars, probeVars >>

\* the process is killed (SIGKILL) between two steps of process_file
Kill ==
    /\ pc \notin {"done", "killed"}
    /\ pc' = "killed"
    /\ UNCHANGED << info, dry_run, use_hardware, fs, fs0, result, fb_attempts,
                    fb_ret, validated, ev >>
    /\ UNCHANGED << cmd, hdr_calls, lockVars, ocrVars, probeVars >>


(***************************************************************************)
(* recode.py: acquire_lock and the "process" command of main, for          *)
(* concurrent invocations sharing one lock file name.  flock locks belong  *)
(* to the open file description, hence to the inode the descriptor was     *)
(* opened on; the name is bound to an inode by open(.., "w") and unbound   *)
(* by unlink.  An inode is named after the invocation whose open created   *)
(* it.                                                                     *)
(***************************************************************************)
Invocations == {"A", "B", "C"}

Inodes == Invocations

\* the statuses process_file returns for a file main selected, without --dry-run
ProcessFileStatuses == {"success", "failed"}

SetAt(fn, k, v) == [fn EXCEPT ![k] = v]

\* line 45: open(lock_file, "w") creates the file when the name is free, and
\* truncates the file it opens
LkOpen(p) ==
    /\ m_pc[p] = "start"
    /\ LET ino == IF lk_path = None THEN p ELSE lk_path
       IN /\ lk_path' = ino
          /\ lk_content' = SetAt(lk_content, ino, None)
          /\ m_fd' = SetAt(m_fd, p, ino)
    /\ m_pc' = SetAt(m_pc, p, "opened")
    /\ UNCHANGED << lk_holder, m_statuses, m_raised, m_exit, library >>
    /\ UNCHANGED pfVars

\* an acquire_lock that carries on although the lock is held
LockBusy_Proceeds == "locked"

\* where acquire_lock goes when flock(LOCK_EX | LOCK_NB) finds the lock held:
\* the OSError is re-raised as RuntimeError and the finally block runs
LockBusy == "unlock"

\* line 46, and lines 50-51 when it raises
LkFlock(p) ==
    /\ m_pc[p] = "opened"
    /\ IF lk_holder[m_fd[p]] = None
       THEN /\ lk_holder' = SetAt(lk_holder, m_fd[p], p)
            /\ m_pc' = SetAt(m_pc, p, "locked")
            /\ m_raised' = m_raised
       ELSE /\ lk_holder' = lk_holder
            /\ m_pc' = SetAt(m_pc, p, LockBusy)
            /\ m_raised' = SetAt(m_raised, p, "flock")
    /\ UNCHANGED << lk_path, lk_content, m_fd, m_statuses, m_exit, library >>
    /\ UNCHANGED pfVars

\* lines 47-49: the PID is written and the body of the with statement starts
LkWritePid(p) ==
    /\ m_pc[p] = "locked"
    /\ lk_content' = SetAt(lk_content, m_fd[p], p)
    /\ m_pc' = SetAt(m_pc, p, "scan")
    /\ UNCHANGED << lk_path, lk_holder, m_fd, m_statuses, m_raised, m_exit, library >>
    /\ UNCHANGED pfVars

\* lines 341-356: probe, select the files to process, return when there are none
MainScan(p) ==
    /\ m_pc[p] = "scan"
    /\ m_pc' = SetAt(m_pc, p, IF library = 0 THEN "unlock" ELSE "process")
    /\ UNCHANGED << lk_path, lk_holder, lk_content, m_fd, m_statuses, m_raised,
                    m_exit, library >>
    /\ UNCHANGED pfVars

\* a loop that stops at the first failed file
AfterFile_StopsOnFailure(status, done, total) ==
    IF status = "failed" \/ done = total THEN "unlock" ELSE "process"

\* lines 358-376: the for loop goes on to the next file of to_process whatever
\* the status of the one just processed, and ends after the last
AfterFile(status, done, total) == IF done = total THEN "unlock" ELSE "process"

\* lines 358-376: one iteration of the loop.  process_file returns a status,
\* or it or write_log raises an OSError, which acquire_lock catches at the
\* yield (line 50) and re-raises as RuntimeError
MainProcessFile(p) ==
    /\ m_pc[p] = "process"
    /\ \/ \E status \in ProcessFileStatuses :
             /\ m_statuses' = SetAt(m_statuses, p, Append(m_statuses[p], status))
             /\ m_pc' = SetAt(m_pc, p, AfterFile(status, Len(m_statuses[p]) + 1, library))
             /\ m_raised' = m_raised
       \/ /\ m_raised' = SetAt(m_raised, p, "body")
          /\ m_pc' = SetAt(m_pc, p, "unlock")
          /\ m_statuses' = m_statuses
    /\ UNCHANGED << lk_path, lk_holder, lk_content, m_fd, m_exit, library >>
    /\ UNCHANGED pfVars

\* line 54: flock(LOCK_UN) on the invocation's own descriptor
LkUnlock(p) ==
    /\ m_pc[p] = "unlock"
    /\ lk_holder' = IF lk_holder[m_fd[p]] = p THEN SetAt(lk_holder, m_fd[p], None)
                    ELSE lk_holder
    /\ m_pc' = SetAt(m_pc, p, "close")
    /\ UNCHANGED << lk_path, lk_content, m_fd, m_statuses, m_raised, m_exit, library >>
    /\ UNCHANGED pfVars

\* line 55
LkClose(p) ==
    /\ m_pc[p] = "close"
    /\ m_fd' = SetAt(m_fd, p, None)
    /\ m_pc' = SetAt(m_pc, p, "unlink")
    /\ UNCHANGED << lk_path, lk_holder, lk_content, m_statuses, m_raised, m_exit,
                    library >>
    /\ UNCHANGED pfVars

\* lines 56-57: the name is unlinked, whichever inode it is bound to; a missing
\* name raises an OSError that is suppressed
LkUnlink(p) ==
    /\ m_pc[p] = "unlink"
    /\ lk_path' = None
    /\ m_pc' = SetAt(m_pc, p, "leave")
    /\ UNCHANGED << lk_holder, lk_content, m_fd, m_statuses, m_raised, m_exit, library >>
    /\ UNCHANGED pfVars

\* the exit code of the process command: 1 at line 379, 0 when main returns
ExitCode(raised, statuses) == IF raised # None THEN 1 ELSE 0

\* lines 50-51 and 377-379: what the process command prints before it exits
\* with code 1.  The except clause of acquire_lock encloses the yield, so it
\* words an OSError of the body as it words one of open or flock
ErrorReported(raised) ==
    IF raised = None THEN None ELSE "Error: Failed to acquire lock"

\* lines 377-379, or the end of main
MainExit(p) ==
    /\ m_pc[p] = "leave"
    /\ m_exit' = SetAt(m_exit, p, ExitCode(m_raised[p], m_statuses[p]))
    /\ m_pc' = SetAt(m_pc, p, "exited")
    /\ UNCHANGED << lk_path, lk_holder, lk_content, m_fd, m_statuses, m_raised,
                    library >>
    /\ UNCHANGED pfVars

(***************************************************************************)
(* Specifications.                                                         *)
(***************************************************************************)
IdleLock ==
    /\ lk_path = None
    /\ lk_holder = [i \in Inodes |-> None]
    /\ lk_content = [i \in Inodes |-> None]
    /\ m_pc = [p \in Invocations |-> "start"]
    /\ m_fd = [p \in Invocations |-> None]
    /\ m_statuses = [p \in Invocations |-> << >>]
    /\ m_raised = [p \in Invocations |-> None]
    /\ m_exit = [p \in Invocations |-> -1]

\* what the probe finds on the first video stream: codec, bit depth and Dolby
\* Vision profile (0: none).  Profile 8 is an HEVC 10-bit stream.
VideoKinds ==
    { << "h264", 8, 0 >>, << "hevc", 10, 8 >>, << "mpeg4", 8, 0 >>,
      << "vc1", 8, 0 >>, << "prores", 10, 0 >> }

\* the files process_file is entered with: probed, then analyzed (media.py
\* line 177)
Infos ==
    { analyze_recode_needs(MediaInfo(Path("m", ext), v[1], v[2], audio, subs, v[3])) :
        ext \in {".mkv", ".avi"},
        v \in VideoKinds,
        audio \in { << >>, << AudioTrack(1, "aac", 2) >>, << AudioTrack(1, "ac3", 6) >> },
        subs \in { << >>, << SubtitleTrack(2, "subrip", "eng", None, FALSE) >>,
                   << SubtitleTrack(2, "hdmv_pgs_subtitle", "eng", None, FALSE) >> } }

Init ==
    /\ info \in Infos
    /\ dry_run \in BOOLEAN
    /\ use_hardware \in BOOLEAN
    /\ \E size \in InSizes, dur \in InDurs :
          fs = [n \in {Name(info.path)} |-> OriginalContent(info, size, dur)]
    /\ fs0 = fs
    /\ pc = "start"
    /\ result = InitialResult(info)
    /\ fb_attempts = << >>
    /\ fb_ret = NotReturned
    /\ validated = FALSE
    /\ ev = << >>
    /\ cmd = << >>
    /\ hdr_calls = << >>
    /\ sup_parts = << >>
    /\ ocr_calls = << >>
    /\ IdleSignals
    /\ NoProbe
    /\ IdleLock
    /\ library = 0

Next ==
    \/ PfStart
    \/ PfExtractSubtitles
    \/ PfHdr10Copy
    \/ PfRemux
    \/ PfHdr10Only
    \/ FbStart
    \/ FbHardware
    \/ FbDeletePartial
    \/ FbSoftware
    \/ PfTranscodeResult
    \/ PfValidate
    \/ PfDiscard
    \/ PfRenameBackup
    \/ PfRenameCommit
    \/ PfRollback
    \/ PfDiscardInner
    \/ PfSetOwnership
    \/ PfDeleteBackup
    \/ Kill

Spec == Init /\ [][Next]_vars

\* the executor's steps are sequential blocking calls: each is taken once the
\* previous one is over, a transform being assumed to exit (no timeout bounds it)
SpecLive ==
    Spec /\ WF_vars(FbHardware) /\ WF_vars(FbDeletePartial) /\ WF_vars(FbSoftware)

IdleFile ==
    /\ info = analyze_recode_needs(MediaInfo(Path("m", ".mkv"), "h264", 8, << >>, << >>, 0))
    /\ dry_run = FALSE
    /\ use_hardware = TRUE
    /\ fs = [n \in {Name(info.path)} |-> OriginalContent(info, 20, 100)]
    /\ fs0 = fs
    /\ pc = "done"
    /\ result = InitialResult(info)
    /\ fb_attempts = << >>
    /\ fb_ret = NotReturned
    /\ validated = FALSE
    /\ ev = << >>
    /\ cmd = << >>
    /\ hdr_calls = << >>
    /\ sup_parts = << >>
    /\ ocr_calls = << >>
    /\ IdleSignals
    /\ NoProbe

InitLock ==
    /\ IdleFile
    /\ IdleLock
    /\ library \in 0..MaxFiles

NextLock ==
    \E p \in Invocations :
        \/ LkOpen(p)
        \/ LkFlock(p)
        \/ LkWritePid(p)
        \/ MainScan(p)
        \/ MainProcessFile(p)
        \/ LkUnlock(p)
        \/ LkClose(p)
        \/ LkUnlink(p)
        \/ MainExit(p)

SpecLock == InitLock /\ [][NextLock]_vars

(***************************************************************************)
(* The probe's result, the analyzer and the command synthesizer, on any    *)
(* MediaInfo a probe can return.                                           *)
(***************************************************************************)
ProbedAudio ==
    { AudioTrack(0, "aac", channels) : channels \in {0, 2, 3, 6, 8} }
        \cup { AudioTrack(0, "ac3", channels) : channels \in {2, 6} }

\* codec, bit depth: a file without a video stream has neither
ProbedVideo ==
    { << None, 0 >> }
        \cup ({"", "h264", "hevc", "vp9", "mpeg4", "vc1", "av1"} \X {8, 10, 12})

\* media.py lines 72-174: the MediaInfo before analyze_recode_needs
ProbedInfos ==
    { WithHdr(MediaInfo(Path("m", ".mkv"), v[1], v[2], audio, subs, dovi), hdr) :
        v \in ProbedVideo,
        audio \in SeqsUpTo(ProbedAudio, MaxAudioTracks),
        subs \in { << >>, << SubtitleTrack(2, "subrip", "eng", None, FALSE) >> },
        dovi \in {0, 8},
        hdr \in BOOLEAN }

InitAnalyze ==
    /\ info \in ProbedInfos
    /\ dry_run = FALSE
    /\ use_hardware = TRUE
    /\ fs = [n \in {Name(info.path)} |-> OriginalContent(info, 20, 100)]
    /\ fs0 = fs
    /\ pc = "probed"
    /\ result = InitialResult(info)
    /\ fb_attempts = << >>
    /\ fb_ret = NotReturned
    /\ validated = FALSE
    /\ ev = << >>
    /\ cmd = << >>
    /\ hdr_calls = << >>
    /\ sup_parts = << >>
    /\ ocr_calls = << >>
    /\ IdleSignals
    /\ NoProbe
    /\ IdleLock
    /\ library = 0

\* media.py line 177
Analyze ==
    /\ pc = "probed"
    /\ info' = analyze_recode_needs(info)
    /\ pc' = "analyzed"
    /\ UNCHANGED << dry_run, use_hardware, fs, fs0, result, fb_attempts, fb_ret,
                    validated, ev, cmd, hdr_calls, lockVars, ocrVars, probeVars >>

\* ffmpeg.py lines 21-93, called with either value of use_vaapi; pc keeps
\* the value it was called with
BuildCmd ==
    /\ pc = "analyzed"
    /\ \E use_vaapi \in BOOLEAN :
          /\ cmd' = build_ffmpeg_cmd(info, output_path, use_vaapi)
          /\ pc' = IF use_vaapi THEN "built_vaapi" ELSE "built_software"
    /\ UNCHANGED << info, dry_run, use_hardware, fs, fs0, result, fb_attempts, fb_ret,
                    validated, ev, hdr_calls, lockVars, ocrVars, probeVars >>

NextAnalyze == Analyze \/ BuildCmd

SpecAnalyze == InitAnalyze /\ [][NextAnalyze]_vars

(***************************************************************************)
(* ffmpeg.py: run_ffmpeg_with_fallback as one call, for import_file.  e1   *)
(* and e2 are the environments of the first attempt and of the software    *)
(* retry.                                                                  *)
(***************************************************************************)
run_ffmpeg_with_fallback(f, i, out, hw, e1, e2) ==
    LET first == RunTransformAt(f, out, e1)
        Return(g, ret, attempts) ==
            [fs |-> g, success |-> ret.success, error |-> ret.error, attempts |-> attempts]
    IN  IF can_use_vaapi(i, hw)
        THEN IF e1.rc = 0
             THEN Return(first, FbReturn(TRUE, << >>), << Attempt("hardware", e1) >>)
             ELSE IF HardwareFailed(e1.stderr) = "fb_unlink"
             THEN Return(RunTransformAt(UnlinkIfExists(first, out), out, e2),
                         SoftwareReturn(e2),
                         << Attempt("hardware", e1), Attempt("software", e2) >>)
             ELSE Return(first, FbReturn(FALSE, e1.stderr), << Attempt("hardware", e1) >>)
        ELSE Return(first, SoftwareReturn(e1), << Attempt("software", e1) >>)

(***************************************************************************)
(* import_.py: import_file, one action per stage.  The source is in its    *)
(* own directory, the destination directory is DestDir.                    *)
(***************************************************************************)
\* lines 69-70
dest_path ==
    Path(DestDir \o info.path.stem,
         IF needs_processing(info) THEN ".mkv" ELSE info.path.suffix)

\* lines 106, 136: temp_path
importing_path == Path(DestDir \o info.path.stem, ".importing.mkv")

\* line 74
hdr10_path == Path(DestDir \o info.path.stem \o ".HDR10", ".mkv")

\* lines 80-87
import_subtitle_action(i) ==
    LET t == CountSubs(i, FALSE)
        g == CountSubs(i, TRUE)
        texts == IF t > 0 THEN ToString(t) \o " text" ELSE ""
        images == IF g > 0 THEN ToString(g) \o " image" ELSE ""
        sep == IF t > 0 /\ g > 0 THEN ", " ELSE ""
    IN "extract " \o texts \o sep \o images \o " subtitle(s)"

\* lines 59-71
ImportResult(i) ==
    [source |-> Name(i.path), destination |-> Name(dest_path), status |-> "pending",
     action |-> IF needs_processing(i) THEN "transcode" ELSE "copy",
     subtitles_extracted |-> << >>, hdr10_copy |-> NoHdr10Copy, error |-> << >>,
     subtitle_action |-> None, dovi_action |-> None]

\* line 75, evaluated on the destination directory as import_file found it
needs_hdr10 == needs_hdr10_copy_existing(info, Exists(fs0, hdr10_path))

\* lines 73-97: the dry run's return; mkdir and the ownership of the
\* destination directories change no file
ImStart ==
    /\ pc = "im_start"
    /\ IF dry_run
       THEN /\ result' = [result EXCEPT
                             !.status = "would_import",
                             !.subtitle_action =
                                 IF has_extractable_subs(info)
                                 THEN import_subtitle_action(info) ELSE @,
                             !.dovi_action =
                                 IF needs_hdr10
                                 THEN "create HDR10 copy (DoVi Profile "
                                          \o ToString(info.dovi_profile) \o ")"
                                 ELSE @]
            /\ pc' = "done"
       ELSE /\ result' = result
            /\ pc' = IF has_extractable_subs(info) THEN "im_extract" ELSE "im_main"
    /\ UNCHANGED << info, dry_run, use_hardware, fs, fs0, fb_attempts, fb_ret,
                    validated, ev >>
    /\ UNCHANGED << cmd, hdr_calls, lockVars, ocrVars, probeVars >>

\* lines 100-102
ImExtractSubtitles ==
    /\ pc = "im_extract"
    /\ \E envs \in [DOMAIN info.subtitle_tracks -> SubEnvs] :
          LET r == extract_subtitles(fs, info, dest_path, envs)
          IN /\ fs' = r.fs
             /\ result' = [result EXCEPT !.subtitles_extracted = r.results]
    /\ pc' = "im_main"
    /\ UNCHANGED << info, dry_run, use_hardware, fs0, fb_attempts, fb_ret,
                    validated, ev >>
    /\ UNCHANGED << cmd, hdr_calls, lockVars, ocrVars, probeVars >>

\* lines 105-115
ImTranscode ==
    /\ pc = "im_main"
    /\ needs_processing(info)
    /\ \E e1, e2 \in TransformEnvs :
          LET r == run_ffmpeg_with_fallback(fs, info, importing_path, use_hardware, e1, e2)
          IN /\ fb_attempts' = r.attempts
             /\ fb_ret' = FbReturn(r.success, r.error)
             /\ IF ~r.success
                THEN /\ result' = Failed(result, ErrorTail(r.error, "Transcode failed"))
                     /\ fs' = UnlinkIfExists(r.fs, importing_path)
                     /\ pc' = "done"
                ELSE /\ result' = result
                     /\ fs' = r.fs
                     /\ pc' = "im_validate"
    /\ UNCHANGED << info, dry_run, use_hardware, fs0, validated, ev >>
    /\ UNCHANGED << cmd, hdr_calls, lockVars, ocrVars, probeVars >>

\* lines 134-167
ImRemux ==
    /\ pc = "im_main"
    /\ ~needs_processing(info) /\ has_extractable_subs(info)
    /\ \E env \in TransformEnvs :
          LET ran == RunTransformAt(fs, importing_path, env)
          IN IF env.rc # 0
             THEN /\ result' = Failed(result, ErrorTail(env.stderr, "Remux failed"))
                  /\ fs' = UnlinkIfExists(ran, importing_path)
                  /\ pc' = "done"
             ELSE /\ result' = result
                  /\ fs' = ran
                  /\ pc' = "im_validate"
    /\ UNCHANGED << info, dry_run, use_hardware, fs0, fb_attempts, fb_ret,
                    validated, ev >>
    /\ UNCHANGED << cmd, hdr_calls, lockVars, ocrVars, probeVars >>

\* lines 187-194: shutil.copy2 writes the destination, then copies the
\* source's metadata to it.  A copy that raises has written nothing, a part of
\* the file, or (when copying the metadata raises) the whole file
ImCopy ==
    /\ pc = "im_main"
    /\ ~needs_processing(info) /\ ~has_extractable_subs(info)
    /\ \/ /\ fs' = WriteFile(fs, dest_path, fs[Name(info.path)])
          /\ result' = result
          /\ pc' = "im_finish"
       \/ /\ \E left \in {NoFile, Partial, fs[Name(info.path)]} :
                fs' = IF left = NoFile THEN fs ELSE WriteFile(fs, dest_path, left)
          /\ result' = Failed(result, << "Copy failed: ", "<e>" >>)
          /\ pc' = "done"
    /\ UNCHANGED << info, dry_run, use_hardware, fs0, fb_attempts, fb_ret,
                    validated, ev >>
    /\ UNCHANGED << cmd, hdr_calls, lockVars, ocrVars, probeVars >>

\* lines 117-123 and 169-175
ImValidate ==
    /\ pc = "im_validate"
    /\ \E probes \in ProbeOutcomes :
          LET v == validate_output(fs, info, importing_path, probes)
          IN /\ validated' = v[1]
             /\ IF v[1]
                THEN /\ result' = result
                     /\ fs' = fs
                     /\ pc' = "im_rename"
                ELSE /\ result' = Failed(result, << "Validation: " \o v[2] >>)
                     /\ fs' = UnlinkIfExists(fs, importing_path)
                     /\ pc' = "done"
    /\ UNCHANGED << info, dry_run, use_hardware, fs0, fb_attempts, fb_ret, ev >>
    /\ UNCHANGED << cmd, hdr_calls, lockVars, ocrVars, probeVars >>

\* lines 125-132 and 177-186
ImRename ==
    /\ pc = "im_rename"
    /\ \/ /\ fs' = Rename(fs, importing_path, dest_path)
          /\ ev' = Append(ev, "commit_ok")
          /\ result' = IF needs_processing(info) THEN result
                       ELSE [result EXCEPT !.action = "remux"]
          /\ pc' = "im_finish"
       \/ /\ fs' = UnlinkIfExists(fs, importing_path)
          /\ ev' = Append(ev, "commit_failed")
          /\ result' = Failed(result, << "Rename failed: ", "<e>" >>)
          /\ pc' = "done"
    /\ UNCHANGED << info, dry_run, use_hardware, fs0, fb_attempts, fb_ret, validated >>
    /\ UNCHANGED << cmd, hdr_calls, lockVars, ocrVars, probeVars >>

\* lines 196-211: set_ownership never raises and its outcome is dropped
ImFinish ==
    /\ pc = "im_finish"
    /\ IF needs_hdr10
       THEN \E env \in Hdr10Envs :
               LET r == create_hdr10_copy(fs, info, DestDir, env)
               IN /\ fs' = r.fs
                  /\ result' = [result EXCEPT
                                   !.status = "success",
                                   !.hdr10_copy = [success |-> r.success,
                                                   message |-> r.message,
                                                   path |-> r.path]]
                  /\ hdr_calls' = Append(hdr_calls, Hdr10Call(r))
       ELSE /\ fs' = fs
            /\ result' = [result EXCEPT !.status = "success"]
            /\ hdr_calls' = hdr_calls
    /\ pc' = "done"
    /\ UNCHANGED << info, dry_run, use_hardware, fs0, fb_attempts, fb_ret,
                    validated, ev >>
    /\ UNCHANGED << cmd, lockVars, ocrVars, probeVars >>

\* import_file is entered with a probed and analyzed file; the destination
\* directory is empty or holds the HDR10 copy of an earlier import
InitImport ==
    /\ info \in Infos
    /\ dry_run \in BOOLEAN
    /\ use_hardware \in BOOLEAN
    /\ \E existing \in BOOLEAN :
          fs = [n \in {Name(info.path)}
                       \cup (IF existing /\ info.has_dovi_profile_8
                             THEN {Name(hdr10_path)} ELSE {}) |->
                   IF n = Name(info.path) THEN OriginalContent(info, 20, 100)
                   ELSE Content("hdr10", 18, 100, {"video", "audio"})]
    /\ fs0 = fs
    /\ pc = "im_start"
    /\ result = ImportResult(info)
    /\ fb_attempts = << >>
    /\ fb_ret = NotReturned
    /\ validated = FALSE
    /\ ev = << >>
    /\ cmd = << >>
    /\ hdr_calls = << >>
    /\ sup_parts = << >>
    /\ ocr_calls = << >>
    /\ IdleSignals
    /\ NoProbe
    /\ IdleLock
    /\ library = 0

NextImport ==
    \/ ImStart
    \/ ImExtractSubtitles
    \/ ImTranscode
    \/ ImRemux
    \/ ImCopy
    \/ ImValidate
    \/ ImRename
    \/ ImFinish

\* the two pipelines: a file goes through process_file or through import_file
InitPipelines == Init \/ InitImport

NextPipelines == Next \/ NextImport

SpecPipelines == InitPipelines /\ [][NextPipelines]_vars

(***************************************************************************)
(* validate_output on any candidate a transform can leave: durations on    *)
(* both sides of the 1% tolerance and containers without a duration.       *)
(***************************************************************************)
ValidateDurs == {0, 98, 99, 100, 101, 102}

ValidateCandidates ==
    { Content("output", s, d, t) : s \in OutSizes, d \in ValidateDurs, t \in OutStreams }

InitValidate ==
    /\ info \in Infos
    /\ dry_run = FALSE
    /\ use_hardware = TRUE
    /\ \E dur \in {0, 100}, c \in ValidateCandidates :
          fs = [n \in {Name(info.path), Name(output_path)} |->
                   IF n = Name(info.path) THEN OriginalContent(info, 20, dur) ELSE c]
    /\ fs0 = fs
    /\ pc = "validate"
    /\ result = PlannedResult(info)
    /\ fb_attempts = << >>
    /\ fb_ret = NotReturned
    /\ validated = FALSE
    /\ ev = << >>
    /\ cmd = << >>
    /\ hdr_calls = << >>
    /\ sup_parts = << >>
    /\ ocr_calls = << >>
    /\ IdleSignals
    /\ NoProbe
    /\ IdleLock
    /\ library = 0

NextValidate == PfValidate \/ PfDiscard

SpecValidate == InitValidate /\ [][NextValidate]_vars

(***************************************************************************)
(* create_hdr10_copy called repeatedly on one source and destination, as   *)
(* successive runs over the same library do.                               *)
(***************************************************************************)
InitHdr10 ==
    /\ info \in Infos
    /\ dry_run = FALSE
    /\ use_hardware = TRUE
    /\ fs = [n \in {Name(info.path)} |-> OriginalContent(info, 20, 100)]
    /\ fs0 = fs
    /\ pc = "hdr10"
    /\ result = InitialResult(info)
    /\ fb_attempts = << >>
    /\ fb_ret = NotReturned
    /\ validated = FALSE
    /\ ev = << >>
    /\ cmd = << >>
    /\ hdr_calls = << >>
    /\ sup_parts = << >>
    /\ ocr_calls = << >>
    /\ IdleSignals
    /\ NoProbe
    /\ IdleLock
    /\ library = 0

\* hdr.py lines 22-97: one call
CreateHdr10Copy ==
    /\ Len(hdr_calls) < MaxCalls
    /\ \E env \in Hdr10Envs :
          LET r == create_hdr10_copy(fs, info, SourceDir, env)
          IN /\ fs' = r.fs
             /\ hdr_calls' = Append(hdr_calls, Hdr10Call(r))
    /\ UNCHANGED << info, dry_run, use_hardware, fs0, pc, result, fb_attempts, fb_ret,
                    validated, ev, cmd, lockVars, ocrVars, probeVars >>

NextHdr10 == CreateHdr10Copy

SpecHdr10 == InitHdr10 /\ [][NextHdr10]_vars

(***************************************************************************)
(* subtitles.py: ocr_sup_to_srt called on one bitmap sidecar, which may be *)
(* absent, next to a text file an earlier run may have left.               *)
(***************************************************************************)
\* stems of bitmap sidecars, as their components
SupStems ==
    { << "m", "en" >>, << "m", "en", "2" >>, << "m", "en", "forced" >>,
      << "m", "fr", "sdh" >>, << "m", "EN" >>, << "m", "zz" >>, << "m" >>,
      << "m", "fre" >>, << "m", "xyz" >>, << "m", "und" >>, << "m", "un" >>,
      << "de", "fre", "1080p" >>, << "eng", "m", "x264" >>, << "m", "ger", "zz", "cc" >> }

SupContent == Content("sup", 1, 0, {"subtitle"})

\* a text file that was there before the call
OldSrtContent == Content("srt", 500, 0, {"subtitle"})

sup_path == Path(JoinDots(sup_parts), ".sup")

final_srt == with_suffix(sup_path, ".srt")

FileAt(f, p) == IF Exists(f, p) THEN f[Name(p)] ELSE NoFile

\* a call: what it returned, the language it detected (None when it returned
\* before detecting one), whether the OCR library wrote the text file and
\* with what size, and what was at the text file's name before the call
OcrCall(r, wrote, size, before) ==
    [success |-> r.success, message |-> r.message, srt_path |-> r.srt_path,
     lang_2 |-> r.lang_2, wrote |-> wrote, size |-> size, before |-> before]

InitOcr ==
    /\ info = analyze_recode_needs(MediaInfo(Path("m", ".mkv"), "h264", 8, << >>, << >>, 0))
    /\ dry_run = FALSE
    /\ use_hardware = TRUE
    /\ fs0 = << >>
    /\ pc = "ocr"
    /\ result = InitialResult(info)
    /\ fb_attempts = << >>
    /\ fb_ret = NotReturned
    /\ validated = FALSE
    /\ ev = << >>
    /\ cmd = << >>
    /\ hdr_calls = << >>
    /\ IdleLock
    /\ library = 0
    /\ sup_parts \in SupStems
    /\ ocr_calls = << >>
    /\ IdleSignals
    /\ NoProbe
    /\ \E has_sup \in BOOLEAN, has_srt \in BOOLEAN :
          fs = [n \in (IF has_sup THEN {Name(sup_path)} ELSE {})
                        \cup (IF has_srt THEN {Name(final_srt)} ELSE {}) |->
                   IF n = Name(sup_path) THEN SupContent ELSE OldSrtContent]

\* subtitles.py lines 64-120: one call
OcrSupToSrt ==
    /\ Len(ocr_calls) < MaxCalls
    /\ \E env \in OcrEnvs :
          LET r == ocr_sup_to_srt(fs, sup_parts, env)
          IN /\ fs' = r.fs
             /\ ocr_calls' = Append(ocr_calls,
                                    OcrCall(r, Exists(fs, sup_path) /\ env.saved,
                                            env.size, FileAt(fs, final_srt)))
    /\ UNCHANGED << info, dry_run, use_hardware, fs0, pc, result, fb_attempts, fb_ret,
                    validated, ev, cmd, hdr_calls, sup_parts, sig, ocr_frame, probeVars,
                    lockVars >>

NextOcr == OcrSupToSrt

SpecOcr == InitOcr /\ [][NextOcr]_vars

(***************************************************************************)
(* subtitles.py: ocr_sup_to_srt step by step, with OcrAlarmHandler and the *)
(* alarm.  SIGALRM is delivered asynchronously: while the alarm is pending *)
(* its handler may run between any two steps of the main thread.           *)
(***************************************************************************)
OcrFrameVars == << info, dry_run, use_hardware, fs0, pc, result, fb_attempts, fb_ret,
                   validated, ev, cmd, hdr_calls, sup_parts, probeVars, lockVars >>

\* the frame returns: the call is recorded
OcrReturns(p, frame) ==
    /\ ocr_calls' = Append(ocr_calls,
                           [success |-> p.success, message |-> p.message,
                            srt_path |-> p.srt_path,
                            lang_2 |-> IF p.message = "SUP file not found" THEN None
                                       ELSE detect_sub_language(sup_parts),
                            wrote |-> frame.wrote, size |-> 0, before |-> frame.before])
    /\ ocr_frame' = [frame EXCEPT !.pos = "returned", !.pending = NoPending]

\* lines 69-75 and 23-26: the existence check, then __enter__ installs the
\* handler, keeps the one it replaces and sets the alarm
OcrEnter ==
    /\ ocr_frame.pos \in {"idle", "returned"}
    /\ Len(ocr_calls) < MaxCalls
    /\ LET frame == [ocr_frame EXCEPT !.wrote = FALSE, !.before = FileAt(fs, final_srt)]
       IN IF ~Exists(fs, sup_path)
          THEN /\ OcrReturns(Pending("return", FALSE, "SUP file not found", None), frame)
               /\ sig' = sig
          ELSE /\ ocr_frame' = [frame EXCEPT !.pos = "body", !.old_handler = sig.handler]
               /\ sig' = [handler |-> AlarmHandler, alarm |-> TRUE]
               /\ ocr_calls' = ocr_calls
    /\ fs' = fs
    /\ UNCHANGED OcrFrameVars

\* lines 76-111: the body of the with statement runs to a return statement
\* or raises
OcrBody ==
    /\ ocr_frame.pos = "body"
    /\ \E env \in { e \in OcrEnvs : e.stage # "timeout" } :
          LET written == IF env.saved THEN WriteFile(fs, final_srt, SrtContent(env.size))
                         ELSE fs
              small == env.stage = "saved" /\ env.size < SRT_MIN_SIZE
          IN /\ fs' = IF small THEN OcrCleanup(written, final_srt) ELSE written
             /\ ocr_frame' =
                   [ocr_frame EXCEPT
                      !.pos = "exit",
                      !.wrote = env.saved,
                      !.pending =
                         CASE env.stage = "no_items" ->
                                Pending("return", FALSE,
                                        "No PGS subtitle data found in SUP file", None)
                           [] env.stage = "no_entries" ->
                                Pending("return", FALSE,
                                        "OCR produced no subtitle entries", None)
                           [] env.stage = "error" ->
                                Pending("error", FALSE, "OCR error", None)
                           [] small ->
                                Pending("return", FALSE,
                                        "SRT file too small (OCR likely failed)", None)
                           [] OTHER ->
                                Pending("return", TRUE, "OCR successful",
                                        Name(final_srt))]
    /\ UNCHANGED << sig, ocr_calls >>
    /\ UNCHANGED OcrFrameVars

\* lines 33-35: the alarm goes off and the installed handler runs in the
\* main thread.  In the body (the text file written or not by then) the
\* OcrTimeoutError unwinds to __exit__; in __exit__ before signal.alarm(0)
\* it leaves __exit__ at once and replaces what was pending; after the call
\* it would reach the caller.
AlarmFires ==
    /\ sig.alarm
    /\ sig' = [sig EXCEPT !.alarm = FALSE]
    /\ IF sig.handler # AlarmHandler
       THEN /\ ocr_frame' = [ocr_frame EXCEPT !.pos = "killed"]
            /\ fs' = fs
       ELSE CASE ocr_frame.pos = "body" ->
                   \E saved \in BOOLEAN :
                      /\ fs' = IF saved THEN WriteFile(fs, final_srt, SrtContent(SRT_MIN_SIZE))
                               ELSE fs
                      /\ ocr_frame' = [ocr_frame EXCEPT
                                          !.pos = "exit",
                                          !.wrote = saved,
                                          !.pending = Pending("timeout", FALSE,
                                                              "OCR timed out", None)]
              [] ocr_frame.pos = "exit" ->
                   /\ fs' = fs
                   /\ ocr_frame' = [ocr_frame EXCEPT
                                       !.pos = "left",
                                       !.pending = Pending("timeout", FALSE,
                                                           "OCR timed out", None)]
              [] OTHER ->
                   /\ fs' = fs
                   /\ ocr_frame' = [ocr_frame EXCEPT !.pos = "stray_timeout"]
    /\ UNCHANGED ocr_calls
    /\ UNCHANGED OcrFrameVars

\* line 29: signal.alarm(0)
OcrExitCancel ==
    /\ ocr_frame.pos = "exit"
    /\ sig' = [sig EXCEPT !.alarm = FALSE]
    /\ ocr_frame' = [ocr_frame EXCEPT !.pos = "restore"]
    /\ UNCHANGED << fs, ocr_calls >>
    /\ UNCHANGED OcrFrameVars

\* lines 30-31: signal.signal(signal.SIGALRM, self.old_handler); return False
OcrExitRestore ==
    /\ ocr_frame.pos = "restore"
    /\ sig' = [sig EXCEPT !.handler = ocr_frame.old_handler]
    /\ ocr_frame' = [ocr_frame EXCEPT !.pos = "left"]
    /\ UNCHANGED << fs, ocr_calls >>
    /\ UNCHANGED OcrFrameVars

\* lines 111-120: the with statement is left; a return statement completes,
\* an exception reaches its except clause, which deletes the text file
OcrLeave ==
    /\ ocr_frame.pos = "left"
    /\ fs' = IF ocr_frame.pending.kind = "return" THEN fs
             ELSE OcrCleanup(fs, final_srt)
    /\ OcrReturns(ocr_frame.pending, ocr_frame)
    /\ sig' = sig
    /\ UNCHANGED OcrFrameVars

InitAlarm ==
    /\ info = analyze_recode_needs(MediaInfo(Path("m", ".mkv"), "h264", 8, << >>, << >>, 0))
    /\ dry_run = FALSE
    /\ use_hardware = TRUE
    /\ fs0 = << >>
    /\ pc = "ocr"
    /\ result = InitialResult(info)
    /\ fb_attempts = << >>
    /\ fb_ret = NotReturned
    /\ validated = FALSE
    /\ ev = << >>
    /\ cmd = << >>
    /\ hdr_calls = << >>
    /\ IdleLock
    /\ library = 0
    /\ sup_parts \in { << "m", "en" >>, << "m", "en", "2", "forced" >> }
    /\ ocr_calls = << >>
    /\ IdleSignals
    /\ NoProbe
    /\ \E has_sup \in BOOLEAN, has_srt \in BOOLEAN :
          fs = [n \in (IF has_sup THEN {Name(sup_path)} ELSE {})
                        \cup (IF has_srt THEN {Name(final_srt)} ELSE {}) |->
                   IF n = Name(sup_path) THEN SupContent ELSE OldSrtContent]

NextAlarm ==
    \/ OcrEnter
    \/ OcrBody
    \/ AlarmFires
    \/ OcrExitCancel
    \/ OcrExitRestore
    \/ OcrLeave

SpecAlarm == InitAlarm /\ [][NextAlarm]_vars

(***************************************************************************)
(* media.py: probe_file, and the use main makes of its result in recode.py *)
(* and import_.py.  A dovi_profile of 0 stands for None; the prober        *)
(* reports the profiles 5, 7 and 8.                                        *)
(***************************************************************************)
\* what the prober gives for one file: the exit code and whether the output
\* of the main probe parses; the first video stream's codec (None: no video
\* stream), whether its side data has a Dolby Vision entry, the dv_profile
\* in its side data (0: none), its colour transfer and primaries; the
\* subtitle streams; what detect_dovi_profile would return (0: None)
ProbeOutputs ==
    [rc : {0, 1}, parseable : BOOLEAN, video_codec : {None, "h264", "mpeg4"},
     dovi_marker : BOOLEAN, dv_profile : {0, 5, 8},
     color_transfer : {"", "smpte2084", "arib-std-b67"},
     color_primaries : {"", "bt2020"},
     subs : { << >>, << SubtitleTrack(2, "subrip", "eng", None, FALSE) >> },
     second : {0, 7, 8}]

\* a probe that only looks at the exit code
ProbeFailed_ExitCodeOnly(out) == out.rc # 0

\* media.py lines 85-94
ProbeFailed(out) == out.rc # 0 \/ ~out.parseable

\* media.py lines 114-132: video_hdr_type after the side data loop and the
\* colour transfer test, which comes second
HdrType(out) ==
    IF out.color_transfer = "arib-std-b67" THEN "hlg"
    ELSE IF out.color_transfer = "smpte2084" THEN "hdr10"
    ELSE IF out.dovi_marker THEN "dolby vision"
    ELSE None

\* media.py lines 69-179: the MediaInfo returned and the prober invocations
probe_file(filepath, out) ==
    LET blank == [f \in DOMAIN MediaInfo(filepath, None, 0, << >>, << >>, 0)
                          \cup {"probe_error", "video_hdr_type"} |->
                     IF f \in {"probe_error", "video_hdr_type"} THEN None
                     ELSE MediaInfo(filepath, None, 0, << >>, << >>, 0)[f]]
        has_video == out.video_codec # None
        hdr_type == IF has_video THEN HdrType(out) ELSE None
        in_stream == IF has_video THEN out.dv_profile ELSE 0
        second == in_stream = 0 /\ hdr_type = "dolby vision"
        dovi == IF second THEN out.second ELSE in_stream
    IN  IF out.rc # 0
        THEN [info |-> [blank EXCEPT !.probe_error = "ffprobe failed"],
              calls |-> << "ffprobe" >>]
        ELSE IF ProbeFailed(out)
        THEN [info |-> [blank EXCEPT !.probe_error = "JSON parse error"],
              calls |-> << "ffprobe" >>]
        ELSE [info |->
                analyze_recode_needs(
                    [blank EXCEPT
                        !.video_codec = out.video_codec,
                        !.video_bit_depth = IF has_video THEN 8 ELSE 0,
                        !.video_hdr =
                            has_video /\ (out.dovi_marker \/ out.color_transfer # ""
                                             \/ out.color_primaries = "bt2020"),
                        !.video_hdr_type = hdr_type,
                        !.subtitle_tracks = out.subs,
                        !.dovi_profile = dovi,
                        !.has_dovi_profile_8 = (dovi = 8)]),
              calls |-> << "ffprobe" >>
                            \o (IF second THEN << "detect_dovi_profile" >> ELSE << >>)]

\* recode.py line 252 (scan_directory) or 344, import_.py line 290
ProbeFile ==
    /\ pc \in {"recode_probe", "import_probe"}
    /\ LET r == probe_file(info.path, probe_out)
       IN /\ info' = r.info
          /\ probe_calls' = probe_calls \o r.calls
    /\ pc' = IF pc = "recode_probe" THEN "recode_select" ELSE "import_select"
    /\ UNCHANGED << dry_run, use_hardware, fs, fs0, result, fb_attempts, fb_ret,
                    validated, ev, cmd, hdr_calls, ocrVars, probe_out, lockVars >>

\* recode.py lines 347-364: the file is in to_process and process_file is
\* called with it, or it is left out
RecodeSelect ==
    /\ pc = "recode_select"
    /\ IF needs_processing(info) \/ has_extractable_subs(info) \/ needs_hdr10_copy(info)
       THEN pc' = "start" /\ result' = InitialResult(info)
       ELSE pc' = "not_selected" /\ result' = result
    /\ UNCHANGED << info, dry_run, use_hardware, fs, fs0, fb_attempts, fb_ret,
                    validated, ev, cmd, hdr_calls, ocrVars, probeVars, lockVars >>

\* import_.py lines 291-312: a probe error is counted as a failure and the
\* loop continues, otherwise import_file is called
ImportSelect ==
    /\ pc = "import_select"
    /\ IF Truthy(info.probe_error)
       THEN pc' = "probe_failed" /\ result' = result
       ELSE pc' = "im_start" /\ result' = ImportResult(info)
    /\ UNCHANGED << info, dry_run, use_hardware, fs, fs0, fb_attempts, fb_ret,
                    validated, ev, cmd, hdr_calls, ocrVars, probeVars, lockVars >>

InitProbe ==
    /\ info = probe_file(Path("m", ".mkv"), [rc |-> 1]).info
    /\ dry_run \in BOOLEAN
    /\ use_hardware = TRUE
    /\ fs = [n \in {Name(info.path)} |-> Content("original", 20, 100, {})]
    /\ fs0 = fs
    /\ pc \in {"recode_probe", "import_probe"}
    /\ result = InitialResult(info)
    /\ fb_attempts = << >>
    /\ fb_ret = NotReturned
    /\ validated = FALSE
    /\ ev = << >>
    /\ cmd = << >>
    /\ hdr_calls = << >>
    /\ sup_parts = << >>
    /\ ocr_calls = << >>
    /\ IdleSignals
    /\ probe_out \in ProbeOutputs
    /\ probe_calls = << >>
    /\ IdleLock
    /\ library = 0

NextProbe ==
    \/ ProbeFile
    \/ RecodeSelect
    \/ ImportSelect
    \/ PfStart
    \/ ImStart

SpecProbe == InitProbe /\ [][NextProbe]_vars

(***************************************************************************)
(* recode.py: process_file on a source whose suffix is not .mkv, in a      *)
(* library where another file already has the derived final name.          *)
(***************************************************************************)
\* another media file of the library
OtherContent == Content("other", 30, 100, {"video", "audio"})

InitShared ==
    /\ info \in { i \in Infos : i.path.suffix # ".mkv" }
    /\ dry_run \in BOOLEAN
    /\ use_hardware \in BOOLEAN
    /\ fs = [n \in {Name(info.path), Name(final_path)} |->
                IF n = Name(info.path) THEN OriginalContent(info, 20, 100)
                ELSE OtherContent]
    /\ fs0 = fs
    /\ pc = "start"
    /\ result = InitialResult(info)
    /\ fb_attempts = << >>
    /\ fb_ret = NotReturned
    /\ validated = FALSE
    /\ ev = << >>
    /\ cmd = << >>
    /\ hdr_calls = << >>
    /\ sup_parts = << >>
    /\ ocr_calls = << >>
    /\ IdleSignals
    /\ NoProbe
    /\ IdleLock
    /\ library = 0

SpecShared == InitShared /\ [][Next]_vars




(***************************************************************************)
(* subtitles.py: extract_subtitles as process_file and import_file call    *)
(* it, on files with up to MaxSubs subtitle tracks.                        *)
(***************************************************************************)
\* codec, language tag, forced flag and title of a probed subtitle track:
\* text, bitmap and unrecognized codecs; no tag, English, another mapped
\* language, an unmapped tag
SubKinds ==
    [codec : {"subrip"}, language : {None, "ENG", "fre", "xyz"},
     is_forced : {FALSE}, title : {None}]
        \cup [codec : {"hdmv_pgs_subtitle"}, language : {"eng", "fre"},
              is_forced : {FALSE}, title : {None}]
        \cup { [codec |-> "dvb_teletext", language |-> "eng", is_forced |-> FALSE,
                title |-> None],
               [codec |-> "ass", language |-> "eng", is_forced |-> TRUE, title |-> None],
               [codec |-> "hdmv_pgs_subtitle", language |-> None, is_forced |-> TRUE,
                title |-> "English SDH"] }

SubTracks(kinds) ==
    [k \in DOMAIN kinds |->
        SubtitleTrack(k + 1, kinds[k].codec, kinds[k].language, kinds[k].title,
                      kinds[k].is_forced)]

InitSubs ==
    /\ \E kinds \in SeqsUpTo(SubKinds, MaxSubs) :
          info = analyze_recode_needs(
                     MediaInfo(Path("m", ".mkv"), "hevc", 8, << AudioTrack(1, "aac", 2) >>,
                               SubTracks(kinds), 0))
    /\ has_extractable_subs(info)
    /\ dry_run = FALSE
    /\ use_hardware = TRUE
    /\ fs = [n \in {Name(info.path)} |-> OriginalContent(info, 20, 100)]
    /\ fs0 = fs
    /\ \/ pc = "extract" /\ result = PlannedResult(info)
       \/ pc = "im_extract" /\ result = ImportResult(info)
    /\ fb_attempts = << >>
    /\ fb_ret = NotReturned
    /\ validated = FALSE
    /\ ev = << >>
    /\ cmd = << >>
    /\ hdr_calls = << >>
    /\ sup_parts = << >>
    /\ ocr_calls = << >>
    /\ IdleSignals
    /\ NoProbe
    /\ IdleLock
    /\ library = 0

NextSubs == PfExtractSubtitles \/ ImExtractSubtitles

SpecSubs == InitSubs /\ [][NextSubs]_vars



(***************************************************************************)
(* One "recode process" invocation with the files it processes: each       *)
(* iteration of main's loop runs process_file, step by step, on one file   *)
(* of to_process.                                                          *)
(***************************************************************************)
Batcher == "A"

\* lines 347-351: the files main selects
to_process ==
    { i \in Infos : needs_processing(i) \/ has_extractable_subs(i) \/ needs_hdr10_copy(i) }

\* lines 358-364: process_file is entered with the next file
BatchBegin ==
    /\ m_pc[Batcher] = "process"
    /\ pc = "done"
    /\ \E i \in to_process, size \in InSizes, dur \in InDurs :
          /\ info' = i
          /\ fs' = [n \in {Name(i.path)} |-> OriginalContent(i, size, dur)]
          /\ result' = InitialResult(i)
    /\ fs0' = fs'
    /\ pc' = "start"
    /\ fb_attempts' = << >>
    /\ fb_ret' = NotReturned
    /\ validated' = FALSE
    /\ ev' = << >>
    /\ m_pc' = SetAt(m_pc, Batcher, "file")
    /\ UNCHANGED << dry_run, use_hardware, cmd, hdr_calls, ocrVars, probeVars, lk_path,
                    lk_holder, lk_content, m_fd, m_statuses, m_raised, m_exit, library >>

\* lines 365-376: process_file has returned and its frame is gone; write_log
\* writes its result or raises an OSError
BatchEnd ==
    /\ m_pc[Batcher] = "file"
    /\ pc = "done"
    /\ result' = InitialResult(info)
    /\ fb_ret' = NotReturned
    /\ validated' = FALSE
    /\ ev' = << >>
    /\ hdr_calls' = << >>
    /\ \/ /\ m_statuses' = SetAt(m_statuses, Batcher,
                                  Append(m_statuses[Batcher], result.status))
          /\ m_pc' = SetAt(m_pc, Batcher,
                           AfterFile(result.status, Len(m_statuses[Batcher]) + 1, library))
          /\ m_raised' = m_raised
       \/ /\ m_raised' = SetAt(m_raised, Batcher, "body")
          /\ m_pc' = SetAt(m_pc, Batcher, "unlock")
          /\ m_statuses' = m_statuses
    /\ UNCHANGED << lk_path, lk_holder, lk_content, m_fd, m_exit, library >>
    /\ UNCHANGED << info, dry_run, use_hardware, fs, fs0, pc, fb_attempts, cmd, ocrVars, probeVars >>

InitBatch ==
    /\ IdleFile
    /\ IdleLock
    /\ library \in 0..MaxBatch

NextBatch ==
    \/ LkOpen(Batcher)
    \/ LkFlock(Batcher)
    \/ LkWritePid(Batcher)
    \/ MainScan(Batcher)
    \/ BatchBegin
    \/ Next
    \/ BatchEnd
    \/ LkUnlock(Batcher)
    \/ LkClose(Batcher)
    \/ LkUnlink(Batcher)
    \/ MainExit(Batcher)

SpecBatch == InitBatch /\ [][NextBatch]_vars


(***************************************************************************)
(* Properties of process_file's replacement sequence (checked under Spec). *)
(***************************************************************************)
Happened(e) == \E k \in DOMAIN ev : ev[k] = e

OriginalKept ==
    Exists(fs, info.path) /\ fs[Name(info.path)] = fs0[Name(info.path)]

OriginalInBackup ==
    Exists(fs, backup_path) /\ fs[Name(backup_path)] = fs0[Name(info.path)]

ReplacementInPlace ==
    /\ validated
    /\ Exists(fs, final_path)
    /\ fs[Name(final_path)] \in Candidates
    /\ ~TooSmall(fs[Name(final_path)].size, fs0[Name(info.path)].size)

\* C1: in every state of process_file, a killed process included, the
\* original's content is at its original path or at the backup path, or the
\* validated replacement is at the final name.
C1_ContentNeverLost == OriginalKept \/ OriginalInBackup \/ ReplacementInPlace

\* C1: the process was killed between the two renames, the original being only
\* at the backup path.
C1_KilledBetweenRenames ==
    /\ pc = "killed"
    /\ ev = << "backup_ok" >>
    /\ ~Exists(fs, info.path)
    /\ OriginalInBackup

RolledBackState ==
    /\ OriginalKept
    /\ ~Exists(fs, backup_path)
    /\ ~Exists(fs, output_path)
    /\ result.status = "failed"

C3_OriginalUntouchedUnlessValidated ==
    /\ ~validated => OriginalKept /\ ~Exists(fs, backup_path) /\ ev = << >>
    /\ (pc = "done" /\ ~validated) => ~Exists(fs, output_path)

\* C3: process_file returned after validation rejected a candidate.
C3_Rejected ==
    /\ pc = "done"
    /\ ~validated
    /\ result.status = "failed"
    /\ result.error = << "Validation failed: Output too small" >>
    /\ OriginalKept

(***************************************************************************)
(* Properties of run_ffmpeg_with_fallback (checked under Spec).            *)
(***************************************************************************)
AttemptModes == [k \in DOMAIN fb_attempts |-> fb_attempts[k].mode]

\* the first attempt was in hardware mode and exited non-zero
HardwareAttemptFailed ==
    /\ fb_attempts # << >>
    /\ fb_attempts[1].mode = "hardware"
    /\ fb_attempts[1].rc # 0

\* the fragments that contain an accelerator-initialization signature, in any
\* letter case
RecognisedFragments ==
    {"Failed setup for format vaapi", "hwaccel initialisation returned error"}

Recognised(stderr) == \E k \in DOMAIN stderr : stderr[k] \in RecognisedFragments

\* C6: after a hardware attempt that exited non-zero with a recognised
\* signature, the software attempt starts with no file at the output name, and
\* the executor returns after a software attempt with that attempt's outcome:
\* success iff it exited 0, and its diagnostic text on failure.
C6_FallbackReportsSoftware ==
    (HardwareAttemptFailed /\ Recognised(fb_attempts[1].stderr)) =>
        /\ pc \in {"fb_unlink", "fb_sw", "fb_return", "killed"}
        /\ (pc = "fb_sw" /\ Len(fb_attempts) = 1) => ~Exists(fs, output_path)
        /\ pc = "fb_return" =>
              /\ AttemptModes = << "hardware", "software" >>
              /\ fb_ret.success = (fb_attempts[2].rc = 0)
              /\ ~fb_ret.success => fb_ret.error = fb_attempts[2].stderr

\* C6: the executor returns the failure of a software retry whose diagnostic
\* text differs from the hardware attempt's.
C6_SoftwareRetryFailed ==
    /\ pc = "fb_return"
    /\ AttemptModes = << "hardware", "software" >>
    /\ fb_attempts[2].rc # 0
    /\ fb_attempts[2].stderr # fb_attempts[1].stderr
    /\ fb_ret = FbReturn(FALSE, fb_attempts[2].stderr)

\* C7: after a hardware attempt that exited non-zero with no recognised
\* signature, the executor has returned Failed with the hardware attempt's
\* diagnostic text and no software attempt was run.
C7_UnrecognisedFailureIsFinal ==
    (HardwareAttemptFailed /\ ~Recognised(fb_attempts[1].stderr)) =>
        /\ pc \in {"fb_return", "killed"}
        /\ AttemptModes = << "hardware" >>
        /\ fb_ret = FbReturn(FALSE, fb_attempts[1].stderr)

\* C7: the hardware attempt failed with an empty diagnostic text.
C7_EmptyDiagnostics ==
    /\ pc = "fb_return"
    /\ HardwareAttemptFailed
    /\ fb_attempts[1].stderr = << >>
    /\ fb_ret = FbReturn(FALSE, << >>)

\* the cases in which the hardware path is not eligible
Ineligible ==
    \/ ~use_hardware
    \/ ~info.needs_video_recode
    \/ info.video_bit_depth > 8
    \/ info.video_codec \in VAAPI_INCOMPATIBLE_CODECS

\* C8: when the hardware path is not eligible, the executor runs no hardware
\* attempt and at most one attempt; it returns after exactly one software
\* attempt, with that attempt's outcome.
C8_IneligibleIsSoftwareOnly ==
    Ineligible =>
        /\ pc \notin {"fb_hw", "fb_unlink"}
        /\ AttemptModes \in {<< >>, << "software" >>}
        /\ pc = "fb_sw" => fb_attempts = << >>
        /\ pc = "fb_return" =>
              /\ AttemptModes = << "software" >>
              /\ fb_ret.success = (fb_attempts[1].rc = 0)

\* C8: hardware is enabled and the codec is mpeg4; the executor returned after
\* one software attempt.
C8_Mpeg4Software ==
    /\ use_hardware
    /\ info.video_codec = "mpeg4"
    /\ pc = "fb_return"
    /\ AttemptModes = << "software" >>

\* the safety part of C9: the attempts of one invocation are at most one hardware attempt
\* followed by at most one software attempt; the executor returns after at
\* least one attempt, with Success iff the last attempt exited 0 and Failed
\* with the last attempt's diagnostic text otherwise; after a software attempt
\* the executor has returned.
C9_OneTerminalState ==
    /\ AttemptModes \in {<< >>, << "hardware" >>, << "software" >>,
                         << "hardware", "software" >>}
    /\ pc = "fb_return" =>
          /\ fb_attempts # << >>
          /\ fb_ret.success = (fb_attempts[Len(fb_attempts)].rc = 0)
          /\ ~fb_ret.success => fb_ret.error = fb_attempts[Len(fb_attempts)].stderr
    /\ (fb_attempts # << >> /\ fb_attempts[Len(fb_attempts)].mode = "software")
          => pc \in {"fb_return", "killed"}
    /\ pc \in {"fb_hw", "fb_unlink", "fb_sw"} => Len(fb_attempts) <= 1

\* C9: Success after a software retry.
C9_SuccessAfterRetry ==
    /\ pc = "fb_return"
    /\ AttemptModes = << "hardware", "software" >>
    /\ fb_ret = FbReturn(TRUE, << >>)

\* C9: C9_OneTerminalState holds in every state, and an executor that has
\* started reaches its return (or the process is killed), each transform
\* being a child process that exits.
C9_Terminates ==
    /\ []C9_OneTerminalState
    /\ (pc \in {"fb_hw", "fb_unlink", "fb_sw"}) ~> (pc \in {"fb_return", "killed"})

(***************************************************************************)
(* Properties of the batch lock and of the process command (checked under  *)
(* SpecLock).                                                              *)
(***************************************************************************)
InBody == { p \in Invocations : m_pc[p] \in {"scan", "process"} }

\* C4: at most one invocation is executing the batch body.
C4_MutualExclusion == Cardinality(InBody) <= 1

\* C5: an invocation whose flock found the lock held is in the release steps
\* or has exited; it has processed no file; it exits with code 1.
C5_BusyLockFailsAtOnce ==
    \A p \in Invocations :
        m_raised[p] = "flock" =>
            /\ m_pc[p] \in {"unlock", "close", "unlink", "leave", "exited"}
            /\ m_statuses[p] = << >>
            /\ m_pc[p] = "exited" => m_exit[p] = 1

\* C5: an invocation found the lock held by another invocation that is in the
\* batch body, and exited.
C5_SecondInvocationExited ==
    \E p, q \in Invocations :
        /\ m_raised[p] = "flock"
        /\ m_pc[p] = "exited"
        /\ m_exit[p] = 1
        /\ m_pc[q] = "process"

\* C10: a process command in which a file failed exits with code 1.
C10_FailedFileExitsOne ==
    \A p \in Invocations :
        (m_pc[p] = "exited" /\ \E k \in DOMAIN m_statuses[p] : m_statuses[p][k] = "failed")
            => m_exit[p] = 1

(***************************************************************************)
(* Properties of the batch loop (checked under SpecBatch).                 *)
(***************************************************************************)
AfterBody == {"unlock", "close", "unlink", "leave", "exited"}

\* C11: process_file returns a result whose status is success or failed, and
\* failed when a rename or the deletion of the backup failed; unless an
\* exception left the loop, the loop is over only when every file of the
\* batch has been attempted, whatever the statuses of the earlier files.
C11_FailureDoesNotAbortBatch ==
    /\ (m_pc[Batcher] = "file" /\ pc = "done") =>
          /\ result.status \in {"success", "failed"}
          /\ (\E e \in {"backup_failed", "commit_failed", "rollback_failed",
                        "unlink_failed"} : Happened(e)) => result.status = "failed"
    /\ (m_raised[Batcher] = None /\ m_pc[Batcher] \in AfterBody) =>
          Len(m_statuses[Batcher]) = library
    /\ m_pc[Batcher] \in {"process", "file"} => Len(m_statuses[Batcher]) < library

\* C11: the first file of a batch failed, the second was processed and the
\* invocation exited.
C11_SecondFileAfterFailure ==
    /\ m_pc[Batcher] = "exited"
    /\ m_raised[Batcher] = None
    /\ m_statuses[Batcher] = << "failed", "success" >>

(***************************************************************************)
(* Properties of validate_output (checked under Spec, where PfValidate     *)
(* applies it to the candidate a transform left).                          *)
(***************************************************************************)
SizeRejection == << "Validation failed: Output too small" >>

CandidateBelowTenth ==
    /\ Exists(fs, output_path)
    /\ 10 * fs[Name(output_path)].size < fs0[Name(info.path)].size

\* C12: whatever the probes give, validate_output rejects an existing
\* candidate on size exactly when its size is below a tenth of the source's:
\* before validation for every outcome of the probes, and in the verdict
\* process_file got.
C12_SizeFloor ==
    /\ (pc = "validate" /\ Exists(fs, output_path)) =>
          \A probes \in ProbeOutcomes :
              LET v == validate_output(fs, info, output_path, probes)
              IN /\ CandidateBelowTenth => v = << FALSE, "Output too small" >>
                 /\ ~CandidateBelowTenth => v[2] # "Output too small"
    /\ pc = "backup" => ~CandidateBelowTenth
    /\ (pc = "discard" /\ ev = << >> /\ Exists(fs, output_path)
          /\ fs[Name(output_path)] \in Candidates) =>
             (result.error = SizeRejection <=> CandidateBelowTenth)

\* C12: a candidate with the source's duration and both streams was rejected
\* on size.
C12_RejectedOnSizeOnly ==
    /\ pc = "discard"
    /\ result.error = SizeRejection
    /\ Exists(fs, output_path)
    /\ fs[Name(output_path)].dur = fs0[Name(info.path)].dur
    /\ fs[Name(output_path)].streams = {"video", "audio"}

\* C13: a candidate validate_output accepted contains a video stream, and an
\* audio stream when the input has an audio track.
C13_AcceptedHasStreams ==
    pc = "backup" =>
        /\ "video" \in fs[Name(output_path)].streams
        /\ info.audio_tracks # << >> => "audio" \in fs[Name(output_path)].streams

Built == pc \in {"built_vaapi", "built_software"}

Analyzed == pc = "analyzed" \/ Built

\* C14: after analyze_recode_needs on a freshly probed MediaInfo, an audio
\* track is marked for recoding exactly when it has more than 2 channels,
\* whatever its codec.
C14_AudioFlagIsChannelCount ==
    /\ pc = "probed" =>
          \A k \in DOMAIN info.audio_tracks : ~info.audio_tracks[k].needs_recode
    /\ Analyzed =>
          \A k \in DOMAIN info.audio_tracks :
              info.audio_tracks[k].needs_recode <=> info.audio_tracks[k].channels > 2

\* C14: an analyzed file with a 5.1 AAC track marked and a stereo AC-3 track
\* left alone.
C14_SurroundAacStereoAc3 ==
    /\ pc = "analyzed"
    /\ Len(info.audio_tracks) = 2
    /\ info.audio_tracks[1].codec = "aac" /\ info.audio_tracks[1].channels = 6
    /\ info.audio_tracks[1].needs_recode
    /\ info.audio_tracks[2].codec = "ac3" /\ info.audio_tracks[2].channels = 2
    /\ ~info.audio_tracks[2].needs_recode

\* C15: after the analyzer, needs_video_recode is false for the codecs h264,
\* hevc and vp9 and true for every other non-empty codec string.
C15_VideoFlagIsCodecSet ==
    Analyzed =>
        /\ info.video_codec \in {"h264", "hevc", "vp9"} => ~info.needs_video_recode
        /\ (info.video_codec \notin {"h264", "hevc", "vp9"}
               /\ info.video_codec \notin {None, ""}) => info.needs_video_recode

\* C15: an analyzed VP9 file, left alone.
C15_Vp9Compatible ==
    /\ pc = "analyzed"
    /\ info.video_codec = "vp9"
    /\ ~info.needs_video_recode

RecodeFlagged(i) ==
    i.needs_video_recode \/ \E k \in DOMAIN i.audio_tracks : i.audio_tracks[k].needs_recode

\* the same file with no subtitle tracks, no Dolby Vision and the other HDR flag
OtherAttributes(i) ==
    [i EXCEPT !.subtitle_tracks = << >>, !.dovi_profile = 0,
              !.has_dovi_profile_8 = FALSE, !.video_hdr = ~@]

\* C16: needs_processing holds exactly when the video or at least one audio
\* track needs recoding, and does not depend on the subtitle tracks or on
\* the Dolby Vision and HDR fields; a transcode is run only for such a file.
C16_NeedsProcessingIsRecodeFlags ==
    /\ needs_processing(info) <=> RecodeFlagged(info)
    /\ needs_processing(info) <=> needs_processing(OtherAttributes(info))
    /\ (pc \in {"fb_hw", "fb_sw"} \/ fb_attempts # << >>) => RecodeFlagged(info)
    /\ result.status = "compatible" => ~RecodeFlagged(info)

\* C16: a Dolby Vision file with a text subtitle and nothing to recode went
\* to the remux, not to the transcode.
C16_SubsAndDoviNotProcessing ==
    /\ pc = "validate"
    /\ fb_attempts = << >>
    /\ info.has_dovi_profile_8
    /\ \E k \in DOMAIN info.subtitle_tracks : info.subtitle_tracks[k].is_text
    /\ ~needs_processing(info)

AllFourHold ==
    /\ info.needs_video_recode
    /\ use_hardware
    /\ info.video_bit_depth <= 8
    /\ info.video_codec \notin {"mpeg4", "msmpeg4v1", "msmpeg4v2", "msmpeg4v3"}

\* C17: can_use_vaapi is true only if the video needs recoding, hardware is
\* enabled, the bit depth is at most 8 and the codec is not one of the
\* VAAPI-incompatible codecs; the first attempt is a hardware attempt only then.
C17_VaapiOnlyIfAllFour ==
    /\ can_use_vaapi(info, use_hardware) => AllFourHold
    /\ (pc = "fb_hw" \/ (fb_attempts # << >> /\ fb_attempts[1].mode = "hardware"))
          => AllFourHold

\* C17: a 10-bit file that needs a video recode, hardware enabled, started
\* in software.
C17_TenBitSoftware ==
    /\ pc = "fb_sw"
    /\ fb_attempts = << >>
    /\ use_hardware
    /\ info.needs_video_recode
    /\ info.video_bit_depth = 10
    /\ info.video_codec \notin VAAPI_INCOMPATIBLE_CODECS

\* C18: the command build_ffmpeg_cmd returns maps only the first video
\* stream and the audio streams, disables subtitles, carries no subtitle
\* codec option, and sets the muxing queue size to 65536.
C18_NoSubtitleMapQueueOverride ==
    cmd # << >> =>
        /\ \A k \in DOMAIN cmd :
              cmd[k] = "-map" => k < Len(cmd) /\ cmd[k + 1] \in {"0:v:0", "0:a"}
        /\ \E k \in DOMAIN cmd : cmd[k] = "-sn"
        /\ \A k \in DOMAIN cmd : cmd[k] \notin {"-c:s", "-scodec", "0:s"}
        /\ \E k \in DOMAIN cmd :
              cmd[k] = "-max_muxing_queue_size" /\ k < Len(cmd) /\ cmd[k + 1] = "65536"

\* C18: a command was built for a file with a subtitle track, two audio
\* tracks and a video recode.
C18_BuiltForFileWithSubtitle ==
    /\ Built
    /\ cmd # << >>
    /\ info.subtitle_tracks # << >>
    /\ Len(info.audio_tracks) = 2
    /\ info.needs_video_recode

Hdr10Path == Path(info.path.stem \o ".HDR10", ".mkv")

Strips == { k \in DOMAIN hdr_calls : hdr_calls[k].stripped }

\* C19 as stated: two calls of create_hdr10_copy on the same Dolby Vision
\* Profile 8 source and destination invoke the strip at most once and both
\* report success.
C19_TwoCallsAsStated ==
    (info.has_dovi_profile_8 /\ Len(hdr_calls) >= 2) =>
        /\ Cardinality(Strips) <= 1
        /\ \A k \in DOMAIN hdr_calls : hdr_calls[k].success

\* C19, amended: once a call of create_hdr10_copy has reported success,
\* every later call on the same source and destination invokes no strip and
\* reports success, so at most one strip succeeds; a call that fails leaves
\* no target behind, and a call that finds no target invokes the strip.
C19_IdempotentAfterSuccess ==
    /\ \A j, k \in DOMAIN hdr_calls :
          (j < k /\ hdr_calls[j].success) =>
              hdr_calls[k].success /\ ~hdr_calls[k].stripped
    /\ Cardinality({ k \in Strips : hdr_calls[k].success }) <= 1
    /\ (hdr_calls # << >> /\ ~hdr_calls[Len(hdr_calls)].success) => ~Exists(fs, Hdr10Path)
    /\ \A k \in DOMAIN hdr_calls :
          (info.has_dovi_profile_8 /\ \A j \in 1..(k - 1) : ~hdr_calls[j].success)
              => hdr_calls[k].stripped

\* C19: the first call stripped and succeeded, the second found the target.
C19_SecondCallFoundTarget ==
    /\ Len(hdr_calls) = 2
    /\ hdr_calls[1].success /\ hdr_calls[1].stripped
    /\ hdr_calls[2] = [success |-> TRUE, message |-> "HDR10 copy already exists",
                       stripped |-> FALSE]
    /\ Exists(fs, Hdr10Path)

Hdr10OnlyCase ==
    /\ info.has_dovi_profile_8
    /\ info.video_codec \in {"h264", "hevc", "vp9"}
    /\ \A k \in DOMAIN info.audio_tracks : info.audio_tracks[k].channels <= 2
    /\ \A k \in DOMAIN info.subtitle_tracks :
          ~info.subtitle_tracks[k].is_text /\ ~info.subtitle_tracks[k].is_image
    /\ ~dry_run

\* C20 as stated: for a Dolby Vision Profile 8 source with a compatible
\* codec, no audio track above 2 channels and no extractable subtitle,
\* process_file reports "compatible", runs no transcode or remux, and the
\* .HDR10.mkv sibling exists.
C20_CompatibleAsStated ==
    (pc = "done" /\ Hdr10OnlyCase) =>
        /\ result.status = "compatible"
        /\ fb_attempts = << >> /\ ~validated
        /\ Exists(fs, Hdr10Path)

\* C20, amended: for such a source process_file, outside a dry run, reports
\* "success" with the source as output path, runs no transcode or remux and
\* leaves the source as it was; it calls create_hdr10_copy once, records the
\* call's outcome, and the .HDR10.mkv sibling exists exactly when that call
\* reported success.
C20_Hdr10OnlyReportsSuccess ==
    (pc = "done" /\ Hdr10OnlyCase) =>
        /\ result.status = "success"
        /\ result.output_path = Name(info.path)
        /\ fb_attempts = << >> /\ cmd = << >> /\ ~validated
        /\ ~Exists(fs, output_path)
        /\ fs[Name(info.path)] = fs0[Name(info.path)]
        /\ Len(hdr_calls) = 1 /\ hdr_calls[1].stripped
        /\ result.hdr10_copy.success = hdr_calls[1].success
        /\ Exists(fs, Hdr10Path) <=> result.hdr10_copy.success

\* C20: such a file was processed and its HDR10 sibling created.
C20_SiblingCreated ==
    /\ pc = "done"
    /\ Hdr10OnlyCase
    /\ result.status = "success"
    /\ result.hdr10_copy.success
    /\ Exists(fs, Hdr10Path)

DurationRejection == << "Validation failed: Duration mismatch" >>

\* the candidate's and the source's container durations as the probes report them
OutDur == fs[Name(output_path)].dur

InDur == fs[Name(info.path)].dur

ExceedsOnePercent == InDur > 0 /\ OutDur > 0 /\ 100 * Abs(OutDur - InDur) > InDur

\* C24: in validate_output, a candidate that passed the size check is
\* rejected on duration exactly when both durations were probed, both are
\* positive and they differ by more than 1% of the input duration; a failed
\* or unparseable probe, or a duration that is not positive, skips the check.
C24_DurationParity ==
    /\ (pc = "validate" /\ Exists(fs, output_path)
          /\ 10 * fs[Name(output_path)].size >= fs[Name(info.path)].size) =>
          \A probes \in ProbeOutcomes :
              LET v == validate_output(fs, info, output_path, probes)
              IN v = << FALSE, "Duration mismatch" >>
                    <=> (probes.out_dur /\ probes.in_dur /\ ExceedsOnePercent)
    /\ (pc = "discard" /\ ev = << >> /\ result.error = DurationRejection
          /\ Exists(fs, output_path)) => ExceedsOnePercent

\* C24: a candidate of exactly 101% of the input duration was accepted.
C24_OnePercentAccepted ==
    /\ pc = "backup"
    /\ validated
    /\ InDur = 100
    /\ OutDur = 101

Hdr10Temp == with_suffix(Hdr10Path, ".tmp.mkv")

Hdr10Failures ==
    {"Not DoVi Profile 8", "ffmpeg failed", "Output file not created", "Output too small",
     "Rename failed"}

\* C25: <stem>.HDR10.mkv holds only what the strip wrote to the temporary
\* sibling, at least 90% of the input size, and exists only after a call
\* that stripped and reported success; a failed call reports one of the
\* failures and leaves no target; no call leaves the temporary file behind
\* or touches the source.
C25_TargetOnlyByRename ==
    /\ ~Exists(fs, Hdr10Temp)
    /\ Exists(fs, Hdr10Path) =>
          /\ fs[Name(Hdr10Path)].kind = "hdr10"
          /\ 10 * fs[Name(Hdr10Path)].size >= 9 * fs[Name(info.path)].size
    /\ Exists(fs, Hdr10Path) <=>
          \E k \in DOMAIN hdr_calls : hdr_calls[k].success /\ hdr_calls[k].stripped
    /\ \A k \in DOMAIN hdr_calls :
          ~hdr_calls[k].success <=> hdr_calls[k].message \in Hdr10Failures
    /\ fs[Name(info.path)] = fs0[Name(info.path)]

\* C25: the strip wrote less than 90% of the input: the call failed and
\* neither the temporary file nor the target is there.
C25_UndersizedDeleted ==
    /\ Len(hdr_calls) = 1
    /\ hdr_calls[1] = [success |-> FALSE, message |-> "Output too small", stripped |-> TRUE]
    /\ ~Exists(fs, Hdr10Temp)
    /\ ~Exists(fs, Hdr10Path)

Has(x) == \E k \in DOMAIN cmd : cmd[k] = x

HasPair(option, value) ==
    \E k \in DOMAIN cmd : cmd[k] = option /\ k < Len(cmd) /\ cmd[k + 1] = value

Count(x) == Cardinality({ k \in DOMAIN cmd : cmd[k] = x })

HardwareVideoArgs ==
    /\ HasPair("-hwaccel", "vaapi")
    /\ HasPair("-hwaccel_output_format", "vaapi")
    /\ HasPair("-vaapi_device", "/dev/dri/renderD128")
    /\ HasPair("-c:v", "hevc_vaapi")
    /\ HasPair("-qp", "18")

SoftwareVideoArgs ==
    /\ HasPair("-c:v", "libx265")
    /\ HasPair("-crf", "16")
    /\ HasPair("-preset", "slow")

\* the value of -x265-params for a software encode
X265Params(hdr, deep) ==
    IF hdr /\ deep THEN "hdr-opt=1:repeat-headers=1:profile=main10"
    ELSE IF hdr THEN "hdr-opt=1:repeat-headers=1"
    ELSE IF deep THEN "profile=main10"
    ELSE None

\* the command selects one video mode; deep tells the sources that get the
\* 10-bit pixel format and the profile hint
VideoModeSelection(deep) ==
    LET recode == info.needs_video_recode
        vaapi == pc = "built_vaapi"
        software == recode /\ ~vaapi
    IN /\ Count("-c:v") = 1
       /\ HardwareVideoArgs <=> (recode /\ vaapi)
       /\ (Has("-hwaccel") \/ Has("-vaapi_device") \/ Has("hevc_vaapi") \/ Has("-qp"))
             <=> (recode /\ vaapi)
       /\ SoftwareVideoArgs <=> software
       /\ (Has("libx265") \/ Has("-crf") \/ Has("-preset")) <=> software
       /\ HasPair("-c:v", "copy") <=> ~recode
       /\ HasPair("-pix_fmt", "yuv420p10le") <=> (software /\ deep)
       /\ Has("-pix_fmt") <=> (software /\ deep)
       /\ IF software /\ X265Params(info.video_hdr, deep) # None
          THEN HasPair("-x265-params", X265Params(info.video_hdr, deep))
          ELSE ~Has("-x265-params")

\* C26 as stated: build_ffmpeg_cmd selects exactly one video mode (hardware
\* arguments iff recode and hardware mode, software encode iff recode and
\* not hardware mode, copy iff no recode), the HDR parameters only for an HDR
\* source, and the 10-bit pixel format and profile hint only for a 10-bit
\* source.
C26_VideoModeAsStated ==
    Built => VideoModeSelection(info.video_bit_depth = 10)

\* C26, amended: the same selection, with the 10-bit pixel format and the
\* profile hint for every software encode of a source of 10 bits or more,
\* 12-bit sources included.
C26_VideoModeTenBitsOrMore ==
    Built => VideoModeSelection(info.video_bit_depth >= 10)

\* C26: a software command for a 12-bit HDR source that needs a video recode.
C26_TwelveBitSoftware ==
    /\ pc = "built_software"
    /\ info.needs_video_recode
    /\ info.video_bit_depth = 12
    /\ info.video_hdr
    /\ HasPair("-pix_fmt", "yuv420p10le")

\* C27: in the command every audio track has exactly one codec decision,
\* addressed by its position counted from 0: AAC stereo at 256k with the
\* downmix filter exactly when the track is flagged for recode, stream copy
\* otherwise, whatever the other tracks and the video mode are.
C27_PerTrackAudioDecision ==
    Built =>
        /\ \A k \in DOMAIN info.audio_tracks :
              LET n == ToString(k - 1)
                  flagged == info.audio_tracks[k].needs_recode
              IN /\ Count("-c:a:" \o n) = 1
                 /\ HasPair("-c:a:" \o n, "aac") <=> flagged
                 /\ HasPair("-c:a:" \o n, "copy") <=> ~flagged
                 /\ HasPair("-ac:a:" \o n, "2") <=> flagged
                 /\ HasPair("-b:a:" \o n, "256k") <=> flagged
                 /\ HasPair("-filter:a:" \o n, DOWNMIX_FILTER) <=> flagged
                 /\ (Has("-ac:a:" \o n) \/ Has("-b:a:" \o n) \/ Has("-filter:a:" \o n))
                       <=> flagged
        /\ ~Has("-c:a:" \o ToString(Len(info.audio_tracks)))
        /\ ~Has("-c:a") /\ ~Has("-ac") /\ ~Has("-b:a")

\* C27: a hardware command for a file whose first audio track is copied and
\* whose second is downmixed.
C27_CopyThenDownmix ==
    /\ pc = "built_vaapi"
    /\ info.needs_video_recode
    /\ Len(info.audio_tracks) = 2
    /\ ~info.audio_tracks[1].needs_recode
    /\ info.audio_tracks[2].needs_recode
    /\ HasPair("-c:a:0", "copy")
    /\ HasPair("-c:a:1", "aac")

Importing == "destination" \in DOMAIN result

Hdr10Failed == hdr_calls # << >> /\ ~hdr_calls[Len(hdr_calls)].success

PrimaryNeeded == needs_processing(info) \/ has_extractable_subs(info)

\* C21 as stated: in process_file and in import_file, when create_hdr10_copy
\* fails for a file that also needs a recode or a remux, the failure is
\* recorded and the transform, validation and commit are still ahead: they
\* run after the HDR10 failure.
C21_PrimaryRunsAfterHdr10AsStated ==
    [][(hdr_calls' # hdr_calls /\ ~hdr_calls'[Len(hdr_calls')].success /\ PrimaryNeeded)
          => /\ ~result'.hdr10_copy.success
             /\ fb_attempts = << >> /\ ~validated /\ ev = << >>
             /\ pc' # "done"]_vars

\* C21, amended: a failed create_hdr10_copy is recorded in the result's hdr10_copy
\* field and decides nothing else.  For a file that needs a recode or a
\* remux, process_file returns success exactly when the candidate was
\* validated, committed and the backup deleted, and failed with the primary
\* path's error otherwise; import_file, which makes the HDR10 copy last,
\* returns success whenever it got that far, the main file validated and
\* committed at the destination, and never attempts the copy after a failure.
C21_Hdr10FailureDoesNotBlock ==
    /\ hdr_calls # << >> =>
          /\ result.hdr10_copy.success = hdr_calls[Len(hdr_calls)].success
          /\ result.hdr10_copy.message = hdr_calls[Len(hdr_calls)].message
    /\ (~Importing /\ pc = "done" /\ ~dry_run /\ PrimaryNeeded) =>
          /\ result.status \in {"success", "failed"}
          /\ result.status = "success" <=>
                (ReplacementInPlace /\ Happened("commit_ok") /\ Happened("unlink_ok"))
          /\ result.status = "failed" => result.error # << >>
    /\ (Importing /\ pc = "done" /\ ~dry_run) =>
          /\ result.status \in {"success", "failed"}
          /\ result.status = "success" =>
                /\ Exists(fs, dest_path)
                /\ PrimaryNeeded => validated /\ Happened("commit_ok")
          /\ result.status = "failed" => hdr_calls = << >> /\ result.error # << >>
    /\ (Importing /\ Hdr10Failed) => pc \in {"done", "killed"} /\ result.status = "success"

\* C21: process_file replaced a file that needed a recode after its HDR10
\* copy had failed.
C21_ReplacedAfterHdr10Failure ==
    /\ ~Importing
    /\ pc = "done"
    /\ Hdr10Failed
    /\ needs_processing(info)
    /\ result.status = "success"
    /\ ~result.hdr10_copy.success
    /\ ReplacementInPlace


LastOcrCall == ocr_calls[Len(ocr_calls)]

\* C23: whenever ocr_sup_to_srt returns failure (absent source, no subtitle
\* data, no entry, an output under the 100-byte floor, a timeout, any OCR
\* error), it returns no text path and no text file written by that call is
\* left (a text file found afterwards is the one that was there before, not
\* touched); and a call that reports success has left a text file of at
\* least 100 bytes, so an empty or undersized output is never a success.
C23_FailureLeavesNoOutput ==
    ocr_calls # << >> =>
        LET c == LastOcrCall
        IN /\ ~c.success =>
                /\ c.srt_path = None
                /\ Exists(fs, final_srt) => ~c.wrote /\ fs[Name(final_srt)] = c.before
           /\ c.success =>
                /\ c.srt_path = Name(final_srt)
                /\ Exists(fs, final_srt)
                /\ StatSize(fs, final_srt) >= SRT_MIN_SIZE
           /\ c.wrote /\ c.size < SRT_MIN_SIZE => ~c.success

\* C23 witness: the OCR library wrote a 99-byte text file, the call returned
\* failure and the file is gone.
C23_UndersizedOutputDeleted ==
    /\ ocr_calls # << >>
    /\ LastOcrCall.wrote
    /\ LastOcrCall.size = SRT_MIN_SIZE - 1
    /\ ~LastOcrCall.success
    /\ LastOcrCall.message = "SRT file too small (OCR likely failed)"
    /\ ~Exists(fs, final_srt)

\* C30: for every file name, the language detect_sub_language returns is a
\* key of TESSERACT_LANG_MAP.
C30_ResultIsTesseractKey ==
    \A k \in DOMAIN ocr_calls :
        ocr_calls[k].lang_2 # None => ocr_calls[k].lang_2 \in DOMAIN TESSERACT_LANG_MAP


\* extract_subtitles has returned to process_file or import_file
SubsExtracted == pc \in {"hdr10", "main", "im_main"}

Entries == result.subtitles_extracted

TrackOf(e) ==
    info.subtitle_tracks[CHOOSE t \in DOMAIN info.subtitle_tracks :
                             info.subtitle_tracks[t].index = e.track_index]

\* the sidecar name of the k-th extracted track, without its extension
ExpectedStem(k, sub) ==
    (IF Importing THEN dest_path.stem ELSE final_path.stem) \o ".en"
        \o (IF k > 1 THEN "." \o ToString(k) ELSE "")
        \o (IF sub.is_forced THEN ".forced" ELSE "")
        \o (IF sub.title = "English SDH" THEN ".sdh" ELSE "")

\* C22: for every image-coded track whose extraction succeeded, OCR is run;
\* when OCR succeeds the bitmap sidecar is deleted and the entry's output is
\* the text artifact, which exists; when OCR fails or times out the bitmap
\* sidecar is kept, is the entry's output and ocr_success is false.  After
\* extract_subtitles, whatever happened in it, the file's result is not
\* failed and the operation goes on to its next step.
C22_OcrOutcomeDecidesSidecar ==
    SubsExtracted =>
        /\ result.status # "failed"
        /\ result.error = (IF Importing THEN ImportResult(info) ELSE PlannedResult(info)).error
        /\ \A k \in DOMAIN Entries :
              LET e == Entries[k]
                  sup == ExpectedStem(k, TrackOf(e)) \o ".sup"
                  srt == ExpectedStem(k, TrackOf(e)) \o ".srt"
              IN (e.type = "image" /\ e.success) =>
                    /\ e.ocr_performed
                    /\ e.ocr_success =>
                          /\ sup \notin DOMAIN fs
                          /\ srt \in DOMAIN fs
                          /\ e.output = srt
                          /\ e.sup_deleted
                    /\ ~e.ocr_success =>
                          /\ sup \in DOMAIN fs
                          /\ srt \notin DOMAIN fs
                          /\ e.output = sup
                          /\ ~e.sup_deleted

\* C22 witness: two bitmap tracks were extracted; OCR succeeded on one and
\* timed out on the other.
C22_OneOcrOkOneTimedOut ==
    /\ SubsExtracted
    /\ \E j, k \in DOMAIN Entries :
          /\ Entries[j].type = "image" /\ Entries[j].success /\ Entries[j].ocr_success
          /\ Entries[k].type = "image" /\ Entries[k].success
          /\ Entries[k].ocr_message = "OCR timed out"

\* what the track's language tag normalizes to: the table's value for a
\* mapped tag, "un" for an absent one (read as "und"), "en" for an unmapped one
NormalizedLanguage(sub) ==
    LET tag == IF sub.language = None THEN "und" ELSE LowerTag(sub.language)
    IN IF tag \in DOMAIN LANG_CODE_MAP THEN LANG_CODE_MAP[tag] ELSE "en"

HasEntry(sub) == \E k \in DOMAIN Entries : Entries[k].track_index = sub.index

\* C28: a track gets an extraction (one result entry) if and only if its
\* codec is a text or an image codec and its language normalizes to English
\* or undetermined; every other track has no entry, and every file the call
\* created is the output of an entry.
C28_ExtractedIffEnglishTextOrImage ==
    SubsExtracted =>
        /\ \A t \in DOMAIN info.subtitle_tracks :
              LET sub == info.subtitle_tracks[t]
              IN HasEntry(sub) <=>
                    /\ sub.codec \in TEXT_SUBTITLE_CODECS \cup IMAGE_SUBTITLE_CODECS
                    /\ NormalizedLanguage(sub) \in {"en", "un"}
        /\ \A j, k \in DOMAIN Entries :
              Entries[j].track_index = Entries[k].track_index => j = k
        /\ DOMAIN fs \ DOMAIN fs0 \subseteq { Entries[k].output : k \in DOMAIN Entries }

\* C28 witness: a French text track was skipped and a track without a
\* language tag was extracted, its sidecar written.
C28_FrenchSkippedUntaggedExtracted ==
    /\ SubsExtracted
    /\ \E t, u \in DOMAIN info.subtitle_tracks :
          /\ info.subtitle_tracks[t].language = "fre"
          /\ info.subtitle_tracks[t].is_text
          /\ ~HasEntry(info.subtitle_tracks[t])
          /\ info.subtitle_tracks[u].language = None
          /\ HasEntry(info.subtitle_tracks[u])
    /\ DOMAIN fs # DOMAIN fs0

\* the sidecar names of the k-th extracted track: its own and, for a bitmap
\* track, the text artifact of its OCR
SidecarNames(k) ==
    LET sub == TrackOf(Entries[k])
    IN { ExpectedStem(k, sub) \o SidecarExt(sub) }
           \cup (IF sub.is_image THEN { ExpectedStem(k, sub) \o ".srt" } ELSE {})

\* C29: the first extracted track of a language has no counter in its
\* sidecar name and the k-th (k > 1) has the counter k; the sidecar names of
\* the extracted tracks, the OCR text artifact of each bitmap sidecar
\* included, are pairwise distinct.
C29_DistinctSidecarNames ==
    SubsExtracted =>
        \A j, k \in DOMAIN Entries :
            /\ Entries[k].output \in SidecarNames(k)
            /\ j # k => /\ SidecarNames(j) \cap SidecarNames(k) = {}
                        /\ Entries[j].output # Entries[k].output

\* C29 witness: a text track and then a bitmap track were extracted, OCR
\* succeeded, and the two text files are there under different names.
C29_TextThenOcrArtifact ==
    /\ SubsExtracted
    /\ Len(Entries) = 2
    /\ Entries[1].type = "text" /\ Entries[1].success
    /\ Entries[2].type = "image" /\ Entries[2].ocr_success
    /\ Entries[1].output = ExpectedStem(1, TrackOf(Entries[1])) \o ".srt"
    /\ Entries[2].output = ExpectedStem(2, TrackOf(Entries[2])) \o ".srt"
    /\ {Entries[1].output, Entries[2].output} \subseteq DOMAIN fs


FlaggedReasonIs(track, label) ==
    track.recode_reason = track.codec \o " " \o label \o " -> AAC stereo"

\* C32 as stated: the reason of every audio track flagged for recode names
\* the source codec, the label "5.1" for 6 channels and "<N>ch" for every
\* other channel count N, and the target "AAC stereo".
C32_ReasonLabelAsStated ==
    Analyzed =>
        \A k \in DOMAIN info.audio_tracks :
            LET track == info.audio_tracks[k]
            IN track.needs_recode =>
                  FlaggedReasonIs(track, IF track.channels = 6 THEN "5.1"
                                         ELSE ToString(track.channels) \o "ch")

\* C32: the reason of every audio track flagged for recode names the source
\* codec, the label "5.1" for 6 channels, "7.1" for 8 channels and "<N>ch"
\* for every other channel count N, and the target "AAC stereo"; a track
\* that is not flagged has no reason.
C32_ReasonLabel ==
    Analyzed =>
        \A k \in DOMAIN info.audio_tracks :
            LET track == info.audio_tracks[k]
            IN /\ track.needs_recode =>
                     FlaggedReasonIs(track,
                                     CASE track.channels = 6 -> "5.1"
                                       [] track.channels = 8 -> "7.1"
                                       [] OTHER -> ToString(track.channels) \o "ch")
               /\ ~track.needs_recode => track.recode_reason = None

\* C32 witness: an analyzed file with a flagged 8-channel track labelled
\* "7.1" and a flagged 3-channel track labelled "3ch".
C32_SevenOneAndThreeCh ==
    /\ Analyzed
    /\ \E j, k \in DOMAIN info.audio_tracks :
          /\ info.audio_tracks[j].channels = 8
          /\ info.audio_tracks[j].needs_recode
          /\ FlaggedReasonIs(info.audio_tracks[j], "7.1")
          /\ info.audio_tracks[k].channels = 3
          /\ info.audio_tracks[k].needs_recode
          /\ FlaggedReasonIs(info.audio_tracks[k], "3ch")


\* the timed region of ocr_sup_to_srt has been left
TimedRegionLeft == ocr_frame.pos \in {"left", "returned"} /\ ocr_frame.old_handler # None

\* C31: when the alarm goes off during ocr_sup_to_srt the call returns a
\* timeout failure and no text file is left; and whenever the timed region
\* has been left (by a return, a failure, the timeout or an exception) no
\* alarm is pending and the SIGALRM handler installed before the call is
\* installed again, so that no timeout fires after the call has returned.
C31_AlarmCancelledHandlerRestored ==
    /\ TimedRegionLeft => ~sig.alarm /\ sig.handler = PreviousHandler
    /\ ocr_frame.pos \notin {"killed", "stray_timeout"}
    /\ (ocr_frame.pos = "returned" /\ LastOcrCall.message = "OCR timed out") =>
          ~LastOcrCall.success /\ LastOcrCall.srt_path = None /\ ~Exists(fs, final_srt)



\* probe_file has returned
Probed == probe_calls # << >>

\* C33: when the main probe succeeds and the video stream's side data has a
\* Dolby Vision entry but no profile number, probe_file invokes
\* detect_dovi_profile, whatever the stream's colour transfer and colour
\* primaries; and has_dovi_profile_8 is set if and only if the resulting
\* profile is 8.
C33_SecondProbeRecoversProfile ==
    Probed =>
        /\ (/\ ~ProbeFailed(probe_out)
            /\ probe_out.video_codec # None
            /\ probe_out.dovi_marker
            /\ probe_out.dv_profile = 0) =>
              /\ probe_calls = << "ffprobe", "detect_dovi_profile" >>
              /\ info.dovi_profile = probe_out.second
        /\ info.has_dovi_profile_8 <=> info.dovi_profile = 8

\* C34: a file whose probe fails (non-zero exit or unparseable output) has
\* a probe error and nothing else is done with it: process_file and
\* import_file are not called (no transform, remux, subtitle extraction,
\* HDR10 copy or replacement), the file system is as it was, and the prober
\* ran once.
C34_ProbeFailureSkipsFile ==
    Probed =>
        /\ Truthy(info.probe_error) <=> (probe_out.rc # 0 \/ ~probe_out.parseable)
        /\ (probe_out.rc # 0 \/ ~probe_out.parseable) =>
              /\ pc \in {"recode_select", "import_select", "not_selected", "probe_failed"}
              /\ fs = fs0
              /\ probe_calls = << "ffprobe" >>
              /\ result.status = "skipped"
              /\ ~Importing

\* C34 witness: the prober exited with 0, its output did not parse, and the
\* import loop went on without calling import_file.
C34_UnparseableSkippedByImport ==
    /\ probe_out.rc = 0
    /\ ~probe_out.parseable
    /\ pc = "probe_failed"
    /\ info.probe_error = "JSON parse error"


\* C35: whenever process_file returns status failed, whichever step failed,
\* the original is at its original path with its content unchanged, no .bak
\* backup remains and no .xbox.mkv candidate remains.
C35_FailedLeavesLibraryAsBefore ==
    (pc = "done" /\ result.status = "failed") =>
        /\ OriginalKept
        /\ ~Exists(fs, backup_path)
        /\ ~Exists(fs, output_path)


\* C36: process_file modifies, overwrites or deletes only the file it is
\* processing and that file's own artifacts: a different library file that
\* is at the derived final name <stem>.mkv when process_file starts is still
\* there, unchanged, in every later state.
C36_OtherFileAtFinalNameKept ==
    (final_path # info.path /\ Exists(fs0, final_path)) =>
        /\ Exists(fs, final_path)
        /\ fs[Name(final_path)] = fs0[Name(final_path)]


\* C37: process_file puts the output, which has no subtitle stream, in the
\* place of the original only if every English or undetermined-language
\* extractable subtitle track of the file was extracted successfully
\* before: when the extraction of such a track failed, the original is not
\* replaced.
C37_StrippedOnlyIfExtracted ==
    (~Importing /\ Happened("commit_ok")) =>
        /\ "subtitle" \notin fs[Name(final_path)].streams
        /\ \A k \in DOMAIN Entries : Entries[k].success


\* C38: an invocation reports "Failed to acquire lock" only when it could
\* not take the lock: an error the batch body raised while the lock was held
\* is not reported as a lock-acquisition failure; and an invocation that has
\* left acquire_lock holds no lock.
C38_LockFailureOnlyWhenNotAcquired ==
    \A p \in Invocations :
        m_pc[p] \in {"leave", "exited"} =>
            /\ ErrorReported(m_raised[p]) = "Error: Failed to acquire lock"
                   => m_raised[p] = "flock"
            /\ \A i \in Inodes : lk_holder[i] # p


\* C39: on every return path of import_file the source file is at its source
\* path with its content unchanged, and when import_file has returned
\* status failed the destination directory holds no <stem>.importing.mkv
\* and no file at the destination path that this call put there.
C39_FailedImportLeavesNothing ==
    (Importing /\ pc = "done") =>
        /\ FileAt(fs, info.path) = FileAt(fs0, info.path)
        /\ Exists(fs, info.path)
        /\ result.status = "failed" =>
               /\ ~Exists(fs, importing_path)
               /\ FileAt(fs, dest_path) = FileAt(fs0, dest_path)


\* C40: with dry_run set, process_file and import_file run no external tool
\* (no subtitle extraction, no HDR10 copy, no transform, no validation
\* probe) and the files are as they were found; import_file returns
\* would_import, and process_file returns would_process exactly for the files
\* that need a recode, have extractable subtitles or are Dolby Vision
\* profile 8, and compatible for the others.
C40_DryRunTouchesNothing ==
    dry_run =>
        /\ fs = fs0
        /\ fb_attempts = << >> /\ hdr_calls = << >> /\ Entries = << >>
        /\ ~validated /\ ev = << >>
        /\ pc = "done" =>
               IF Importing THEN result.status = "would_import"
               ELSE /\ result.status \in {"would_process", "compatible"}
                    /\ result.status = "would_process" <=>
                           \/ needs_processing(info)
                           \/ has_extractable_subs(info)
                           \/ info.has_dovi_profile_8

\* a dry run of process_file has returned would_process for a Dolby Vision
\* profile 8 file that needs no recode and has no subtitles
C40_DryRunPlansHdr10CopyOnly ==
    /\ dry_run /\ ~Importing /\ pc = "done"
    /\ result.status = "would_process"
    /\ info.has_dovi_profile_8
    /\ ~info.needs_video_recode /\ info.subtitle_tracks = << >>
    /\ \A a \in DOMAIN info.audio_tracks : ~info.audio_tracks[a].needs_recode
    /\ result.dovi_action = "create HDR10 copy (DoVi Profile 8)"

====
